---------------------------- MODULE Spec2Model ----------------------------
(***************************************************************************)
(* A model of the document-processing service of ai-service/app.py: the   *)
(* /process-sensitive-document endpoint, the two processing modes it      *)
(* dispatches to, the pattern extractor, the fallback response builder    *)
(* and the response normalizer (validate_response_format).                *)
(*                                                                         *)
(* Text.  A Python str is a sequence of tokens; a token is a record       *)
(* [s, n]: the first n characters of the word s, or, for the filler       *)
(* letter "x", a run of n letters x.  The string denoted is the           *)
(* concatenation of the tokens, whitespace and punctuation being tokens   *)
(* of their own, so that len, strip, split, lower, title and slicing are  *)
(* computed on the token sequence as the code computes them on the        *)
(* characters.                                                             *)
(*                                                                         *)
(* Values.  A Python value is a record [t, v]: its type tag and payload,  *)
(* so that isinstance, truthiness, str() and dict.get can be modelled.    *)
(***************************************************************************)
EXTENDS Integers, Sequences, FiniteSets, TLC

VARIABLES
    USE_CHUNKING,   \* app.py:60, the process-wide chunking flag
    pc,             \* position of the request handler
    text,           \* request text (token sequence)
    mode,           \* branch taken at app.py:902 ("none" before it)
    result,         \* value of `result` / `extracted_data`
    pattern,        \* what extract_data_from_text_simple returned
    ai_summary,     \* process_full_document: outcome of its call_runpod_llama
    any_success,    \* whether a call_runpod_llama of this request returned no error
    chunks,         \* process_with_chunking: chunks still to process
    chunk_i,        \* process_with_chunking: len(chunks)
    all_summaries,  \* process_with_chunking accumulators
    all_keywords,
    all_metrics,
    response,       \* body handed to jsonify
    status,         \* HTTP status of the response
    via,            \* which statement built the response body
    faulted,        \* where an unexpected exception was raised in this request
    now,            \* logical clock read by datetime.now()
    hin,            \* pure-function harness: input
    hout,           \* pure-function harness: output of the first application
    hout2,          \* pure-function harness: output of the second application
    hpc,            \* pure-function harness: position
    submits,        \* call_runpod_llama: requests.post calls issued (app.py:162)
    polls,          \* call_runpod_llama: requests.get calls issued (app.py:184)
    poll_count,     \* call_runpod_llama: turns of the loop of app.py:181 done
    submit_status,  \* call_runpod_llama: how the submission was answered
    job_status,     \* call_runpod_llama: how the last poll was answered
    toggle_calls    \* toggle_chunking: position and locals of each concurrent call

vars == <<USE_CHUNKING, pc, text, mode, result, pattern, ai_summary, any_success, chunks, chunk_i,
          all_summaries, all_keywords, all_metrics, response, status, via,
          faulted, now, hin, hout, hout2, hpc,
          submits, polls, poll_count, submit_status, job_status, toggle_calls>>

reqVars == <<USE_CHUNKING, pc, text, mode, result, pattern, ai_summary, any_success, chunks, chunk_i,
             all_summaries, all_keywords, all_metrics, response, status, via,
             faulted, now>>

runpodVars == <<submits, polls, poll_count, submit_status, job_status>>

harnessVars == <<hin, hout, hout2, hpc, submits, polls, poll_count, submit_status,
                 job_status, toggle_calls>>

-----------------------------------------------------------------------------
(* Bounds of the model *)

\* longest list offered to the normalizer in a keywords / metrics field
MaxListLen == 11
\* longest plotData list offered to the normalizer
MaxPlots == 3
\* number of phrases of the longest request text
MaxPhrases == 2

-----------------------------------------------------------------------------
(* Tokens and strings *)

WS == {" ", "\n"}

\* the filler sentences of app.py:1077-1082 and the sentence of app.py:1090
Filler1 == "This comprehensive business analysis encompasses multiple strategic dimensions including operational excellence, market positioning, and competitive advantages."
Filler2 == "The document provides valuable insights into organizational performance metrics, strategic initiatives, and growth opportunities."
Filler3 == "Key areas of focus include financial performance optimization, customer engagement strategies, operational efficiency improvements, and market expansion initiatives."
Filler4 == "The analysis demonstrates strong business fundamentals and strategic direction for sustainable growth and competitive market positioning."
Filler5 == "Strategic priorities emphasize innovation, market leadership, and value creation across diverse operational segments."
Filler6 == "The organization maintains focus on long-term sustainability while delivering consistent operational excellence and stakeholder value."
CannedSummary == "Business document processed successfully with comprehensive analysis covering strategic initiatives, financial performance, and market positioning."
CannedFallback == "Sensitive document processed locally. Detailed analysis unavailable due to formatting issues."

\* strings whose last character is a period
DotEnded == {".", "...", Filler1, Filler2, Filler3, Filler4, Filler5, Filler6,
             CannedSummary, CannedFallback, "Sensitive data processed locally.",
             " character business document completed successfully."}

\* len() of the words and canned sentences the model uses
FullLen(s) ==
    CASE s \in {" ", "\n", ".", "!", "?", ":", ",", "-", "0"} -> 1
      [] s \in {"$5M", "$6M", "$2M", "23%", "45%", "94%", "and", "123"} -> 3
      [] s \in {"None", "True"} -> 4
      [] s \in {"1,200", "False"} -> 5
      [] s \in {"Error:", "profit", "growth", "Profit", "Growth", "market"} -> 6
      [] s \in {"Revenue", "revenue", "REVENUE", "Summary", "summary", "Metrics",
                "metrics", "General"} -> 7
      [] s \in {"Currency"} -> 8
      [] s \in {"customers", "Customers", "Financial"} -> 9
      [] s \in {"Percentage"} -> 10
      [] s \in {"Performance", "Operational", "Key Metrics"} -> 11
      [] s = "..." -> 3
      [] s \in {"Total", "sales", "Sales"} -> 5
      [] s \in {"insight", "Insight"} -> 7
      [] s \in {"insights", "Insights", "increase"} -> 8
      [] s \in {"expansion", "retention", "Retention"} -> 9
      [] s \in {"TechCorp"} -> 8
      [] s \in {"grew", "with"} -> 4
      [] s \in {"to"} -> 2
      [] s \in {"efficiency"} -> 10
      [] s \in {"improvement"} -> 11
      [] s \in {"optimization"} -> 12
      [] s = "Data Security" -> 13
      [] s = "Local Processing" -> 16
      [] s = "AI-Powered Analysis" -> 19
      [] s = "Summary not available" -> 21
      [] s = "Business Intelligence" -> 21
      [] s = "Invalid response format" -> 23
      [] s = "Secure Local Processing" -> 23
      [] s = "Sensitive data processed locally." -> 33
      [] s = "Business analysis completed successfully" -> 40
      [] s = "Analysis completed with advanced AI capabilities" -> 48
      [] s = "Business insights extracted using local AI processing" -> 53
      [] s = CannedFallback -> 93
      [] s = Filler1 -> 160
      [] s = Filler2 -> 129
      [] s = Filler3 -> 165
      [] s = Filler4 -> 137
      [] s = Filler5 -> 117
      [] s = Filler6 -> 134
      [] s = CannedSummary -> 147
      [] s = "Analysis of " -> 12
      [] s = " character business document completed successfully." -> 52
      [] s = " Excellence" -> 11
      [] s \in {"Data-Driven Analysis", "Strategic Processing", "simple_extraction_v1"} -> 20
      [] s = "Business Analysis" -> 17
      [] s = "Data Processing" -> 15
      [] s = "chunked" -> 7
      [] s = "Document processed using " -> 25
      [] s = " chunks with local AI analysis" -> 30
      [] s = "Document processing failed: " -> 28
      [] s = "Chunked processing failed: " -> 27
      [] s = "Unknown Metric" -> 14
      [] s = "N/A" -> 3
      [] s = "Total " -> 6
      [] s = "Count" -> 5
      [] s = "RunPod API key not configured" -> 29
      [] s = "RunPod submission failed 500" -> 28
      [] s = "No job ID received from RunPod" -> 30
      [] s = "Job completed but no output available" -> 37
      [] s = "RunPod job failed - Unknown error" -> 33
      [] s = "RunPod job timeout - took too long to complete" -> 46
      [] s = "RunPod API timeout" -> 18
      [] s = "connection reset" -> 16
      [] s = "unexpected fault" -> 16
      [] s = "No text provided" -> 16
      [] s = "Document processing failed: " -> 28
      [] s = "Chunked processing failed: " -> 27
      [] s = "Document processed using " -> 25
      [] s = " chunks with local AI analysis" -> 30
      [] s = "Summary not available" -> 21
      [] s = "chunked" -> 7
      [] s = "Error:" -> 6
      [] s \in {"million", "billion"} -> 7
      [] s \in {"$850"} -> 4
      [] s \in {"M", "B", "x"} -> 1
      [] s \in {"bar", "pie"} -> 3
      [] s = "line" -> 4
      [] s = "Excellence" -> 10
      [] OTHER -> 1

Tok(s) == [s |-> s, n |-> FullLen(s)]
\* a run of n filler letters: one word, lower case, no digit, no punctuation
Fill(n) == [s |-> "x", n |-> n]

IsWS(tok) == tok.s \in WS

RECURSIVE StrLen(_)
\* len(s)
StrLen(s) == IF s = <<>> THEN 0 ELSE Head(s).n + StrLen(Tail(s))

RECURSIVE LStrip(_)
LStrip(s) == IF s # <<>> /\ IsWS(Head(s)) THEN LStrip(Tail(s)) ELSE s

RECURSIVE RStrip(_)
RStrip(s) ==
    IF s # <<>> /\ IsWS(s[Len(s)]) THEN RStrip(SubSeq(s, 1, Len(s) - 1)) ELSE s

\* s.strip()
Strip(s) == RStrip(LStrip(s))

RECURSIVE Prefix(_, _)
\* s[:k]: a token that straddles position k is cut
Prefix(s, k) ==
    IF s = <<>> \/ k <= 0 THEN <<>>
    ELSE IF Head(s).n <= k THEN <<Head(s)>> \o Prefix(Tail(s), k - Head(s).n)
    ELSE <<[s |-> Head(s).s, n |-> k]>>

RECURSIVE Join(_, _)
\* sep.join(parts)
Join(sep, parts) ==
    IF parts = <<>> THEN <<>>
    ELSE IF Len(parts) = 1 THEN parts[1]
    ELSE parts[1] \o sep \o Join(sep, Tail(parts))

RECURSIVE SplitOn(_, _, _)
\* s.split(c) for a one-character separator c; cur is the piece being read
SplitOn(s, c, cur) ==
    IF s = <<>> THEN <<cur>>
    ELSE IF Head(s).s = c /\ Head(s).n = 1 THEN <<cur>> \o SplitOn(Tail(s), c, <<>>)
    ELSE SplitOn(Tail(s), c, Append(cur, Head(s)))

Split(s, c) == SplitOn(s, c, <<>>)

\* s[:k] on a Python list
Take(s, k) == SubSeq(s, 1, IF Len(s) < k THEN Len(s) ELSE k)

-----------------------------------------------------------------------------
(* Python values *)

StrV(s)  == [t |-> "str",  v |-> s]
IntV(i)  == [t |-> "int",  v |-> i]
BoolV(b) == [t |-> "bool", v |-> b]
ListV(l) == [t |-> "list", v |-> l]
DictV(d) == [t |-> "dict", v |-> d]
NoneV    == [t |-> "none", v |-> <<>>]
\* an object with a .json attribute (a flask Response)
RespV(d) == [t |-> "resp", v |-> d]
\* a timestamp string: datetime.now().isoformat() read at logical time c
Stamp(c) == [t |-> "str", v |-> <<[s |-> "T", n |-> c]>>]

Lit(s) == StrV(<<Tok(s)>>)

RECURSIVE Digits(_)
\* the number of decimal digits of i >= 0
Digits(i) == IF i < 10 THEN 1 ELSE 1 + Digits(i \div 10)

\* str(i) for an int i >= 0
NumTok(i) == [s |-> ToString(i), n |-> Digits(i)]

\* str(x)
PyStr(x) ==
    CASE x.t = "str"  -> x
      [] x.t = "none" -> Lit("None")
      [] x.t = "bool" -> IF x.v THEN Lit("True") ELSE Lit("False")
      [] x.t = "int"  -> StrV(<<NumTok(x.v)>>)
      [] OTHER -> Lit("?")

\* bool(x)
Truthy(x) ==
    CASE x.t = "str"  -> x.v # <<>>
      [] x.t = "none" -> FALSE
      [] x.t = "bool" -> x.v
      [] x.t = "int"  -> x.v # 0
      [] x.t = "list" -> x.v # <<>>
      [] x.t = "dict" -> DOMAIN x.v # {}
      [] OTHER -> TRUE

\* d.get(k, default)
Get(d, k, default) == IF k \in DOMAIN d.v THEN d.v[k] ELSE default

\* d.update(e) on the payloads
Update(d, e) == e @@ d

-----------------------------------------------------------------------------
(* create_robust_fallback_response, app.py:1391 *)

\* [s.strip() for s in text.split('.') if len(s.strip()) > 30]
LongSentences(txt) ==
    LET parts == Split(txt, ".")
        stripped == [i \in 1..Len(parts) |-> Strip(parts[i])]
    IN  SelectSeq(stripped, LAMBDA p : StrLen(p) > 30)

FallbackSummary(txt) ==
    LET sentences == IF txt # <<>> /\ StrLen(txt) > 100 THEN LongSentences(txt) ELSE <<>>
    IN  IF sentences # <<>>
        THEN Prefix(sentences[1], 300) \o <<Tok("...")>>
        ELSE <<Tok(CannedFallback)>>

\* create_robust_fallback_response without the plotData entry
create_robust_fallback_response_NoPlots(txt, error_msg, clock) ==
    DictV([summary |-> StrV(FallbackSummary(txt)),
          keywords |-> ListV(<<>>),
          metrics |-> ListV(<<>>),
          insights |-> StrV(FallbackSummary(txt)),
          timestamp |-> Stamp(clock),
          processedLocally |-> BoolV(TRUE),
          processedWithAI |-> BoolV(FALSE),
          fallback |-> BoolV(TRUE),
          error |-> error_msg])

create_robust_fallback_response(txt, error_msg, clock) ==
    DictV([summary |-> StrV(FallbackSummary(txt)),
          keywords |-> ListV(<<>>),
          metrics |-> ListV(<<>>),
          insights |-> StrV(FallbackSummary(txt)),
          plotData |-> ListV(<<>>),
          competitiveAdvantages |-> ListV(<<Lit("Secure Local Processing")>>),
          marketPosition |-> Lit("Sensitive data processed locally."),
          successIndicators |-> ListV(<<Lit("Local Processing")>>),
          timestamp |-> Stamp(clock),
          processedLocally |-> BoolV(TRUE),
          processedWithAI |-> BoolV(FALSE),
          fallback |-> BoolV(TRUE),
          error |-> error_msg])

-----------------------------------------------------------------------------
(* validate_response_format, app.py:1330 *)

RECURSIVE KeptKeywords(_)
\* app.py:1359  [str(k) for k in keywords if k and len(str(k)) > 2]
KeptKeywords(kws) ==
    IF kws = <<>> THEN <<>>
    ELSE (IF Truthy(Head(kws)) /\ StrLen(PyStr(Head(kws)).v) > 2
          THEN <<PyStr(Head(kws))>> ELSE <<>>) \o KeptKeywords(Tail(kws))

\* ValidKeywords without the [:10] slice
ValidKeywords_NoCap(kws) == [k \in {kws} |-> KeptKeywords(k)][kws]

\* app.py:1359  [...][:10]  (the list is bound once, then filtered and cut)
ValidKeywords(kws) == [k \in {kws} |-> Take(KeptKeywords(k), 10)][kws]

\* app.py:1369-1374
CleanMetric(metric) ==
    DictV([name |-> PyStr(Get(metric, "name", Lit("Unknown Metric"))),
           value |-> PyStr(Get(metric, "value", Lit("N/A"))),
           unit |-> PyStr(Get(metric, "unit", StrV(<<>>))),
           category |-> PyStr(Get(metric, "category", Lit("General")))])

RECURSIVE KeptMetrics(_)
\* app.py:1366-1374: valid_metrics after the loop over ms
KeptMetrics(ms) ==
    IF ms = <<>> THEN <<>>
    ELSE (IF /\ Head(ms).t = "dict"
             /\ "name" \in DOMAIN Head(ms).v
             /\ "value" \in DOMAIN Head(ms).v
          THEN <<CleanMetric(Head(ms))>> ELSE <<>>) \o KeptMetrics(Tail(ms))

\* app.py:1366-1375
ValidMetrics(ms) == [m \in {ms} |-> Take(KeptMetrics(m), 8)][ms]

validate_response_format(response_data, clock) ==
    IF response_data.t \notin {"dict", "resp"}
    THEN create_robust_fallback_response(<<>>, Lit("Invalid response format"), clock)
    ELSE
      LET rd == IF response_data.t = "resp" THEN response_data.v ELSE response_data
          kw == Get(rd, "keywords", ListV(<<>>))
          ms == Get(rd, "metrics", ListV(<<>>))
          pd == Get(rd, "plotData", ListV(<<>>))
          validated ==
            [summary |-> Get(rd, "summary", Lit("Business analysis completed successfully")),
             keywords |-> ListV(ValidKeywords(IF kw.t = "list" THEN kw.v ELSE <<>>)),
             metrics |-> ListV(ValidMetrics(IF ms.t = "list" THEN ms.v ELSE <<>>)),
             insights |-> Get(rd, "insights",
                              Lit("Business insights extracted using local AI processing")),
             plotData |-> IF pd.t = "list" THEN pd ELSE ListV(<<>>),
             timestamp |-> Stamp(clock),
             processedLocally |-> BoolV(TRUE),
             processedWithAI |-> BoolV(TRUE)]
          extra ==
            [competitiveAdvantages |->
               Get(rd, "competitiveAdvantages",
                   ListV(<<Lit("AI-Powered Analysis"), Lit("Secure Local Processing")>>)),
             marketPosition |->
               Get(rd, "marketPosition",
                   Lit("Analysis completed with advanced AI capabilities")),
             successIndicators |->
               Get(rd, "successIndicators",
                   ListV(<<Lit("Local Processing"), Lit("Data Security"),
                          Lit("Business Intelligence")>>))]
      IN  DictV(Update(validated, extra))

-----------------------------------------------------------------------------
(* extract_data_from_text_simple, app.py:974 *)

\* s.lower() of a word
Lower(s) ==
    CASE s \in {"Revenue", "REVENUE"} -> "revenue"
      [] s = "Profit" -> "profit"
      [] s = "Growth" -> "growth"
      [] s = "Customers" -> "customers"
      [] s = "Market" -> "market"
      [] s = "Summary" -> "summary"
      [] s = "Metrics" -> "metrics"
      [] s = "Retention" -> "retention"
      [] s = "TechCorp" -> "techcorp"
      [] s = "Sales" -> "sales"
      [] s = "Insight" -> "insight"
      [] s = "PIE" -> "pie"
      [] s = "Insights" -> "insights"
      [] s = "C" -> "c"
      [] s = "A" -> "a"
      [] s = "P" -> "p"
      [] OTHER -> s

\* s.title() of a word
TitleWord(s) ==
    CASE Lower(s) = "revenue" -> "Revenue"
      [] Lower(s) = "profit" -> "Profit"
      [] Lower(s) = "growth" -> "Growth"
      [] Lower(s) = "customers" -> "Customers"
      [] Lower(s) = "market" -> "Market"
      [] Lower(s) = "summary" -> "Summary"
      [] Lower(s) = "metrics" -> "Metrics"
      [] Lower(s) = "retention" -> "Retention"
      [] OTHER -> s

LowerStr(s) == [i \in 1..Len(s) |-> [s |-> Lower(s[i].s), n |-> s[i].n]]
TitleStr(s) == [i \in 1..Len(s) |-> [s |-> TitleWord(s[i].s), n |-> s[i].n]]

\* a whole word, not a cut one and not filler
IsFull(tok) == tok.s # "x" /\ tok.n = FullLen(tok.s)

\* the business terms of app.py:980
Lexicon ==
    {"revenue", "profit", "growth", "market", "customer", "sales", "strategy",
     "innovation", "performance", "efficiency", "competitive", "advantage",
     "leadership", "expansion", "digital", "technology", "platform", "solution",
     "investment", "partnership", "acquisition", "retention", "conversion",
     "optimization", "transformation", "improvement", "sustainable", "quality",
     "experience", "engagement", "brand", "value", "proposition", "share",
     "satisfaction", "excellence", "scalability", "compliance", "security",
     "management", "development", "operational", "financial", "strategic"}

\* set(business_terms)
KeywordSet(txt) ==
    {Lower(txt[i].s) : i \in {j \in 1..Len(txt) :
                                IsFull(txt[j]) /\ Lower(txt[j].s) \in Lexicon}}

\* list(set(business_terms))[:8]: a set is listed in an order the language
\* does not fix, so every order is possible
KeywordOrders(S) ==
    LET k == IF Cardinality(S) < 8 THEN Cardinality(S) ELSE 8
    IN  {f \in [1..k -> S] : \A i, j \in 1..k : f[i] = f[j] => i = j}

\* tokens the value regexes accept
CurrencyWithSuffix == {"$5M", "$6M", "$2M"}
CurrencyBare == {"$850"}
CurrencySuffix == {"million", "billion", "M", "B"}
PercentTokens == {"23%", "45%", "94%"}
NumberTokens == {"1,200"}

\* the regexes of app.py:987-1029, in the order they are applied: the label
\* alternatives (lower case: the patterns are case-insensitive) and the kind
\* of value
MetricPatterns ==
    << [kind |-> "cur", labels |-> << <<"annual", " ", "revenue">>,
                                      <<"total", " ", "revenue">>,
                                      <<"net", " ", "revenue">>, <<"revenue">> >>],
       [kind |-> "cur", labels |-> << <<"net", " ", "profit">>, <<"profit">>,
                                      <<"earnings">>, <<"income">> >>],
       [kind |-> "cur", labels |-> << <<"market", " ", "value">>, <<"valuation">>,
                                      <<"investment">>, <<"funding">> >>],
       [kind |-> "cur", labels |-> << <<"cost", " ", "savings">>, <<"expenses">>,
                                      <<"costs">> >>],
       [kind |-> "pct", labels |-> << <<"growth">>, <<"increase">>,
                                      <<"improvement">>, <<"rise">> >>],
       [kind |-> "pct", labels |-> << <<"market", " ", "share">>, <<"share">> >>],
       [kind |-> "pct", labels |-> << <<"retention", " ", "rate">>, <<"retention">>,
                                      <<"satisfaction">> >>],
       [kind |-> "pct", labels |-> << <<"efficiency">>, <<"productivity">>,
                                      <<"performance">> >>],
       [kind |-> "cnt", labels |-> << <<"customers">>, <<"clients">>, <<"users">> >>],
       [kind |-> "cnt", labels |-> << <<"employees">>, <<"staff">>, <<"workforce">> >>],
       [kind |-> "cnt", labels |-> << <<"locations">>, <<"offices">>, <<"stores">> >>] >>

RECURSIVE SkipWS(_, _)
\* \s*  from position i
SkipWS(txt, i) == IF i <= Len(txt) /\ IsWS(txt[i]) THEN SkipWS(txt, i + 1) ELSE i

\* [:\-]?
OptSep(txt, i) ==
    IF i <= Len(txt) /\ txt[i].s \in {":", "-"} /\ txt[i].n = 1 THEN i + 1 ELSE i

LabelAt(txt, i, alt) ==
    /\ i + Len(alt) - 1 <= Len(txt)
    /\ \A k \in 1..Len(alt) : IsFull(txt[i + k - 1]) /\ Lower(txt[i + k - 1].s) = alt[k]

NoMatch == [ok |-> FALSE, desc |-> <<>>, value |-> <<>>, end |-> 0]

\* a currency or percentage value at position k: the position after it, 0 if none
ValueEnd(txt, k, kind) ==
    IF k > Len(txt) \/ ~IsFull(txt[k]) THEN 0
    ELSE IF kind = "pct" THEN (IF txt[k].s \in PercentTokens THEN k + 1 ELSE 0)
    ELSE IF txt[k].s \in CurrencyWithSuffix THEN k + 1
    ELSE IF txt[k].s \in CurrencyBare
         THEN LET k2 == SkipWS(txt, k + 1)
              IN  IF k2 <= Len(txt) /\ IsFull(txt[k2]) /\ txt[k2].s \in CurrencySuffix
                  THEN k2 + 1 ELSE k + 1
    ELSE 0

\* label, separator, value starting at position i
LabelValueAt(txt, i, pat) ==
    LET fits(a) ==
            /\ LabelAt(txt, i, pat.labels[a])
            /\ ValueEnd(txt, SkipWS(txt, OptSep(txt, SkipWS(txt, i + Len(pat.labels[a])))),
                        pat.kind) > 0
        alts == {a \in 1..Len(pat.labels) : fits(a)}
    IN  IF alts = {} THEN NoMatch
        ELSE LET a == CHOOSE x \in alts : \A y \in alts : x <= y
                 k == SkipWS(txt, OptSep(txt, SkipWS(txt, i + Len(pat.labels[a]))))
                 e == ValueEnd(txt, k, pat.kind)
             IN  [ok |-> TRUE, desc |-> SubSeq(txt, i, i + Len(pat.labels[a]) - 1),
                  value |-> SubSeq(txt, k, e - 1), end |-> e]

\* number, optional "new", label starting at position i
CountAt(txt, i, pat) ==
    IF ~(IsFull(txt[i]) /\ txt[i].s \in NumberTokens) THEN NoMatch
    ELSE LET j == SkipWS(txt, i + 1)
             j2 == IF j < Len(txt) /\ Lower(txt[j].s) = "new" /\ IsWS(txt[j + 1])
                   THEN SkipWS(txt, j + 1) ELSE j
             alts == {a \in 1..Len(pat.labels) : LabelAt(txt, j2, pat.labels[a])}
         IN  IF alts = {} THEN NoMatch
             ELSE LET a == CHOOSE x \in alts : \A y \in alts : x <= y
                  IN  [ok |-> TRUE,
                       desc |-> SubSeq(txt, j2, j2 + Len(pat.labels[a]) - 1),
                       value |-> <<txt[i]>>, end |-> j2 + Len(pat.labels[a])]

MatchAt(txt, i, pat) ==
    IF pat.kind = "cnt" THEN CountAt(txt, i, pat) ELSE LabelValueAt(txt, i, pat)

RECURSIVE FindAll(_, _, _)
\* re.findall(pattern, text): the matches from left to right, none overlapping
FindAll(txt, i, pat) ==
    IF i > Len(txt) THEN <<>>
    ELSE LET m == MatchAt(txt, i, pat)
         IN  IF m.ok THEN <<m>> \o FindAll(txt, m.end, pat)
             ELSE FindAll(txt, i + 1, pat)

\* app.py:994-1040: the first two matches of one pattern as metrics
PatternMetrics(txt, pat) ==
    LET ms == Take(FindAll(txt, 1, pat), 2)
    IN  [i \in 1..Len(ms) |->
          DictV([name |-> IF pat.kind = "cnt"
                          THEN StrV(<<Tok("Total ")>> \o TitleStr(Strip(ms[i].desc)))
                          ELSE StrV(TitleStr(Strip(ms[i].desc))),
                 value |-> StrV(ms[i].value),
                 unit |-> CASE pat.kind = "cur" -> Lit("Currency")
                            [] pat.kind = "pct" -> Lit("Percentage")
                            [] OTHER -> Lit("Count"),
                 category |-> CASE pat.kind = "cur" -> Lit("Financial")
                                [] pat.kind = "pct" -> Lit("Performance")
                                [] OTHER -> Lit("Operational")])]

RECURSIVE RawMetrics(_, _)
\* the metrics list before de-duplication: the patterns from the p-th on
RawMetrics(txt, p) ==
    IF p > Len(MetricPatterns) THEN <<>>
    ELSE PatternMetrics(txt, MetricPatterns[p]) \o RawMetrics(txt, p + 1)

RECURSIVE UniqueByName(_, _)
\* app.py:1043-1048: the first metric of each name
UniqueByName(ms, seen_names) ==
    IF ms = <<>> THEN <<>>
    ELSE IF Head(ms).v.name \notin seen_names
         THEN <<Head(ms)>> \o UniqueByName(Tail(ms), seen_names \cup {Head(ms).v.name})
         ELSE UniqueByName(Tail(ms), seen_names)

\* app.py:1042-1050
ExtractMetrics(txt) == Take(UniqueByName(RawMetrics(txt, 1), {}), 8)

\* the words a token brings: a token named "x x" is a run of three-letter
\* words separated by single spaces, any other token is one word or part of one
WordsIn(tok) == IF tok.s = "x x" THEN (tok.n + 1) \div 4 ELSE 1

\* len(s.split())
WordCount(s) ==
    Cardinality(UNION {{<<i, j>> : j \in 1..WordsIn(s[i])} :
                          i \in {k \in 1..Len(s) :
                                    ~IsWS(s[k]) /\ (k = 1 \/ IsWS(s[k - 1]))}})

LastChar(tok) ==
    IF tok.s \in DotEnded /\ tok.n = FullLen(tok.s) THEN "."
    ELSE IF FullLen(tok.s) = 1 THEN tok.s
    ELSE "a"

\* s.endswith(chars)
EndsWith(s, chars) == s # <<>> /\ LastChar(s[Len(s)]) \in chars

RECURSIVE SummaryParts(_, _, _)
\* app.py:1060-1068: [summary_parts, word_count] after the loop
SummaryParts(sentences, parts, word_count) ==
    IF sentences = <<>> THEN [parts |-> parts, word_count |-> word_count]
    ELSE IF word_count + WordCount(Head(sentences)) < 250
         THEN SummaryParts(Tail(sentences), Append(parts, Head(sentences)),
                           word_count + WordCount(Head(sentences)))
         ELSE [parts |-> Append(parts, Head(sentences)), word_count |-> word_count]

\* '. '.join(summary_parts) + '.'
JoinedParts(summary_parts) ==
    Join(<<Tok("."), Tok(" ")>>, summary_parts) \o <<Tok(".")>>

\* EnhancedSummary giving the sentence of app.py:1090 when there is no part
EnhancedSummary_CannedIfEmpty(summary_parts) ==
    IF summary_parts = <<>> THEN <<Tok(CannedSummary)>>
    ELSE Join(<<Tok(" ")>>,
              <<JoinedParts(summary_parts), <<Tok(Filler1)>>, <<Tok(Filler2)>>,
                <<Tok(Filler3)>>, <<Tok(Filler4)>>, <<Tok(Filler5)>>, <<Tok(Filler6)>> >>)

\* app.py:1071-1088
EnhancedSummary(summary_parts) ==
    LET base_summary == IF summary_parts # <<>> THEN JoinedParts(summary_parts) ELSE <<>>
        enhanced_parts == <<base_summary, <<Tok(Filler1)>>, <<Tok(Filler2)>>,
                            <<Tok(Filler3)>>, <<Tok(Filler4)>>,
                            <<Tok(Filler5)>>, <<Tok(Filler6)>> >>
        summary == Join(<<Tok(" ")>>, SelectSeq(enhanced_parts, LAMBDA q : q # <<>>))
    IN  IF EndsWith(summary, {"."}) THEN summary ELSE summary \o <<Tok(".")>>

\* ExtractSummary without the period added after the joined sentences
ExtractSummary_BareJoin(txt) ==
    LET sp == SummaryParts(LongSentences(txt), <<>>, 0)
    IN  IF sp.word_count < 200 THEN EnhancedSummary(sp.parts)
        ELSE IF sp.parts # <<>> THEN Join(<<Tok("."), Tok(" ")>>, sp.parts)
        ELSE <<Tok(CannedSummary)>>

\* app.py:1052-1090
ExtractSummary(txt) ==
    LET sp == SummaryParts(LongSentences(txt), <<>>, 0)
    IN  IF sp.word_count < 200 THEN EnhancedSummary(sp.parts)
        ELSE IF sp.parts # <<>> THEN JoinedParts(sp.parts)
        ELSE <<Tok(CannedSummary)>>

\* app.py:1100
ExtractPlotData(metrics) ==
    IF metrics # <<>>
    THEN <<DictV([title |-> Lit("Key Metrics"), type |-> Lit("bar"),
                  labels |-> ListV([i \in 1..Len(Take(metrics, 4)) |-> metrics[i].v.name]),
                  values |-> ListV(<<IntV(10), IntV(15), IntV(12), IntV(8)>>)])>>
    ELSE <<>>

(* Request texts: up to MaxPhrases phrases, one after the other *)

\* "Revenue: $5M. "
PhRevenue == <<Tok("Revenue"), Tok(":"), Tok(" "), Tok("$5M"), Tok("."), Tok(" ")>>
\* "revenue $6M growth: 23%. "
PhGrowth ==
    <<Tok("revenue"), Tok(" "), Tok("$6M"), Tok(" "), Tok("growth"), Tok(":"),
      Tok(" "), Tok("23%"), Tok("."), Tok(" ")>>
\* "1,200 customers and profit - $2M. "
PhCustomers ==
    <<Tok("1,200"), Tok(" "), Tok("customers"), Tok(" "), Tok("and"), Tok(" "),
      Tok("profit"), Tok(" "), Tok("-"), Tok(" "), Tok("$2M"), Tok("."), Tok(" ")>>
\* a sentence of 6007 characters: a word of 6000 letters, then " market. "
PhBig == <<Fill(6000), Tok(" "), Tok("market"), Tok("."), Tok(" ")>>

Phrases == {PhRevenue, PhGrowth, PhCustomers, PhBig}

RECURSIVE Flatten(_)
Flatten(ps) == IF ps = <<>> THEN <<>> ELSE Head(ps) \o Flatten(Tail(ps))

Texts == {Flatten(ps) : ps \in UNION {[1..n -> Phrases] : n \in 0..MaxPhrases}}

\* ExtractMetrics and ExtractSummary on the request texts, computed once
MetricsOf == [t \in Texts |-> ExtractMetrics(t)] @@ <<>>
SummaryOf == [t \in Texts |-> ExtractSummary(t)] @@ <<>>

\* the dict returned for the text txt, with its keywords listed in the order
\* keywords and datetime.now() read at clock
extract_data_from_text_simple(txt, keywords, clock) ==
    LET metrics == IF txt \in Texts THEN MetricsOf[txt] ELSE ExtractMetrics(txt)
        summary == IF txt \in Texts THEN SummaryOf[txt] ELSE ExtractSummary(txt)
        kws == [i \in 1..Len(keywords) |-> Lit(keywords[i])]
    IN  DictV([summary |-> StrV(summary),
               keywords |-> ListV(kws),
               metrics |-> ListV(metrics),
               insights |-> StrV(summary),
               plotData |-> ListV(ExtractPlotData(metrics)),
               competitiveAdvantages |->
                 IF keywords # <<>>
                 THEN ListV([i \in 1..Len(Take(keywords, 3)) |->
                              StrV(<<Tok(TitleWord(keywords[i])), Tok(" Excellence")>>)])
                 ELSE ListV(<<Lit("Data-Driven Analysis"), Lit("Strategic Processing")>>),
               marketPosition |->
                 StrV(<<Tok("Analysis of "), NumTok(StrLen(txt)),
                        Tok(" character business document completed successfully.")>>),
               successIndicators |->
                 IF keywords # <<>> THEN ListV(Take(kws, 3))
                 ELSE ListV(<<Lit("Business Analysis"), Lit("Data Processing")>>),
               processing_mode |-> Lit("simple_extraction_v1"),
               original_length |-> IntV(StrLen(txt)),
               timestamp |-> Stamp(clock)])

-----------------------------------------------------------------------------
(* Inputs of the normalizer: dicts with any subset of the fields and fields *)
(* of any type, and values that are not dicts                               *)

\* marks a key the dict does not have
Absent == [t |-> "absent", v |-> <<>>]

MkDict(f) == DictV([k \in {x \in DOMAIN f : f[x].t # "absent"} |-> f[k]])

\* the first n elements of the pattern E repeated
CycList(E, n) == [i \in 1..n |-> E[((i - 1) % Len(E)) + 1]]

Word(n) == StrV(<<Fill(n)>>)

KwGood == <<Word(3), Word(4), Word(25), Word(12)>>
KwMixed == <<Word(2), Word(26), IntV(123), NoneV, StrV(<<>>), IntV(0), Word(3),
             BoolV(TRUE)>>

Metric(nm, val, unit, cat) ==
    DictV([name |-> nm, value |-> val, unit |-> unit, category |-> cat])

MGood == <<Metric(Lit("Revenue"), Lit("$5M"), Lit("Currency"), Lit("Financial")),
           Metric(Lit("Growth"), Lit("23%"), Lit("Percentage"), Lit("Performance")),
           Metric(Lit("revenue"), Lit("$6M"), StrV(<<>>), Lit("General"))>>
MMixed == <<DictV([name |-> Lit("Profit")]),
            Lit("Revenue"),
            DictV([name |-> Lit("Growth"), value |-> IntV(123), unit |-> NoneV]),
            DictV([value |-> Lit("$2M"), unit |-> Lit("Currency")]),
            NoneV>>

Plot(title, type, labels, values) ==
    DictV([title |-> title, type |-> type, labels |-> ListV(labels),
           values |-> ListV(values)])

PlotElems == <<Plot(Lit("Key Metrics"), Lit("bar"), <<Lit("Revenue"), Lit("Growth")>>,
                    <<IntV(10), IntV(15)>>),
               Lit("Revenue"),
               Plot(Lit("Key Metrics"), Lit("pie"), <<Lit("Revenue")>>,
                    <<IntV(10), IntV(15), IntV(12), IntV(8)>>)>>

KeywordInputs ==
    {Absent, Lit("revenue")}
      \cup {ListV(CycList(E, n)) : E \in {KwGood, KwMixed}, n \in 0..MaxListLen}

MetricInputs ==
    {Absent, NoneV}
      \cup {ListV(CycList(E, n)) : E \in {MGood, MMixed}, n \in 0..MaxListLen}

PlotInputs == {Absent, NoneV} \cup {ListV(CycList(PlotElems, n)) : n \in 0..MaxPlots}

TextInputs == {Absent, NoneV, StrV(<<Fill(40), Tok(".")>>)}

\* the remaining keys: none, the three descriptive fields, or those and the
\* markers create_robust_fallback_response sets
OtherInputs ==
    {[competitiveAdvantages |-> Absent, marketPosition |-> Absent,
      successIndicators |-> Absent, processedWithAI |-> Absent,
      fallback |-> Absent, error |-> Absent],
     [competitiveAdvantages |-> ListV(<<Lit("Secure Local Processing")>>),
      marketPosition |-> Lit("Sensitive data processed locally."),
      successIndicators |-> ListV(<<>>), processedWithAI |-> Absent,
      fallback |-> Absent, error |-> Absent],
     [competitiveAdvantages |-> ListV(<<Lit("Secure Local Processing")>>),
      marketPosition |-> Lit("Sensitive data processed locally."),
      successIndicators |-> ListV(<<Lit("Local Processing")>>),
      processedWithAI |-> BoolV(FALSE),
      fallback |-> BoolV(TRUE), error |-> Lit("Invalid response format")]}

DictInputs ==
    {MkDict(Update([summary |-> s, insights |-> s, keywords |-> k, metrics |-> m,
                    plotData |-> p], o)) :
        s \in TextInputs, k \in KeywordInputs, m \in MetricInputs,
        p \in PlotInputs, o \in OtherInputs}

NonDictInputs ==
    {NoneV, Lit("Revenue"), ListV(<<>>), IntV(0),
     RespV(DictV([summary |-> StrV(<<Fill(40), Tok(".")>>)]))}

NormInputs == DictInputs \cup NonDictInputs

-----------------------------------------------------------------------------
(* The request handler is idle while a pure function is exercised *)

NoDict == DictV(<<>>)

ReqIdle ==
    /\ USE_CHUNKING = FALSE
    /\ pc = "idle"
    /\ text = <<>>
    /\ mode = "none"
    /\ result = NoDict
    /\ pattern = NoDict
    /\ ai_summary = [kind |-> "none", out |-> <<>>]
    /\ any_success = FALSE
    /\ chunks = <<>>
    /\ chunk_i = 0
    /\ all_summaries = <<>>
    /\ all_keywords = <<>>
    /\ all_metrics = <<>>
    /\ response = NoDict
    /\ status = 0
    /\ via = "none"
    /\ faulted = "none"
    /\ now = 0

\* the threads that may run toggle_chunking at the same time
Callers == {1, 2}

\* a thread that is not inside toggle_chunking
IdleCall ==
    [pc |-> "idle", new_mode |-> "None", read |-> FALSE, before |-> FALSE,
     wrote |-> FALSE, chunking_enabled |-> FALSE, mode |-> "none", message |-> "none"]

ToggleIdle == toggle_calls = [i \in Callers |-> IdleCall]

\* no invocation of call_runpod_llama is being followed
RunpodIdle ==
    /\ submits = 0
    /\ polls = 0
    /\ poll_count = 0
    /\ submit_status = "none"
    /\ job_status = [status |-> "none", out |-> <<>>]

(* validate_response_format applied once, then to its own output *)

NormInit ==
    /\ ReqIdle
    /\ RunpodIdle
    /\ ToggleIdle
    /\ hin \in NormInputs
    /\ hout = NoneV
    /\ hout2 = NoneV
    /\ hpc = "in"

NormalizeOnce ==
    /\ hpc = "in"
    /\ hout' = validate_response_format(hin, 1)
    /\ hpc' = "once"
    /\ UNCHANGED <<hin, hout2>>
    /\ UNCHANGED runpodVars
    /\ UNCHANGED <<reqVars, toggle_calls>>

NormalizeTwice ==
    /\ hpc = "once"
    /\ hout2' = validate_response_format(hout, 2)
    /\ hpc' = "twice"
    /\ UNCHANGED <<hin, hout>>
    /\ UNCHANGED runpodVars
    /\ UNCHANGED <<reqVars, toggle_calls>>

NormNext == NormalizeOnce \/ NormalizeTwice

SpecNormalize == NormInit /\ [][NormNext]_vars

-----------------------------------------------------------------------------
(* Properties of the normalizer *)

ResultFields ==
    {"summary", "keywords", "metrics", "insights", "plotData", "timestamp",
     "processedLocally", "processedWithAI", "competitiveAdvantages",
     "marketPosition", "successIndicators"}

IsStr(x) == x.t = "str"

IsMetric(m) ==
    /\ m.t = "dict"
    /\ DOMAIN m.v = {"name", "value", "unit", "category"}
    /\ \A k \in DOMAIN m.v : IsStr(m.v[k])

IsPlot(p) ==
    /\ p.t = "dict"
    /\ {"title", "type", "labels", "values"} \subseteq DOMAIN p.v

\* the AnalysisResult invariants of the data model
AnalysisResultOK(r) ==
    /\ r.t = "dict"
    /\ ResultFields \subseteq DOMAIN r.v
    /\ IsStr(r.v.summary)
    /\ IsStr(r.v.insights)
    /\ r.v.keywords.t = "list"
    /\ Len(r.v.keywords.v) <= 10
    /\ \A i \in 1..Len(r.v.keywords.v) :
          /\ IsStr(r.v.keywords.v[i])
          /\ StrLen(r.v.keywords.v[i].v) >= 3
          /\ StrLen(r.v.keywords.v[i].v) <= 25
    /\ r.v.metrics.t = "list"
    /\ Len(r.v.metrics.v) <= 8
    /\ \A i \in 1..Len(r.v.metrics.v) : IsMetric(r.v.metrics.v[i])
    /\ r.v.plotData.t = "list"
    /\ Len(r.v.plotData.v) <= 2
    /\ \A i \in 1..Len(r.v.plotData.v) : IsPlot(r.v.plotData.v[i])

\* what validate_response_format does establish
NormalizedShape(x, r) ==
    LET rd == IF x.t = "resp" THEN x.v ELSE x
    IN  /\ r.t = "dict"
        /\ ResultFields \subseteq DOMAIN r.v
        /\ r.v.keywords.t = "list"
        /\ Len(r.v.keywords.v) <= 10
        /\ \A i \in 1..Len(r.v.keywords.v) :
              /\ IsStr(r.v.keywords.v[i])
              /\ StrLen(r.v.keywords.v[i].v) >= 3
        /\ r.v.metrics.t = "list"
        /\ Len(r.v.metrics.v) <= 8
        /\ \A i \in 1..Len(r.v.metrics.v) : IsMetric(r.v.metrics.v[i])
        /\ r.v.plotData.t = "list"
        /\ rd.t = "dict" =>
              /\ \A k \in {"summary", "insights"} :
                    IF k \in DOMAIN rd.v THEN r.v[k] = rd.v[k] ELSE IsStr(r.v[k])
              /\ IF "plotData" \in DOMAIN rd.v /\ rd.v.plotData.t = "list"
                 THEN r.v.plotData = rd.v.plotData
                 ELSE r.v.plotData = ListV(<<>>)
        /\ rd.t # "dict" => AnalysisResultOK(r)

SameExceptTimestamp(a, b) ==
    /\ a.t = b.t
    /\ DOMAIN a.v = DOMAIN b.v
    /\ \A k \in DOMAIN a.v \ {"timestamp"} : a.v[k] = b.v[k]

\* C7 (as claimed): normalize(normalize(x)) equals normalize(x) in every field
\* except timestamp, for every input x, a dict or not.
C7_Idempotent == hpc = "twice" => SameExceptTimestamp(hout, hout2)

\* C7, on the inputs that are dicts (or carry one in .json): there a second
\* normalization changes nothing but the timestamp.
C7_IdempotentOnDicts ==
    (hpc = "twice" /\ hin.t \in {"dict", "resp"}) => SameExceptTimestamp(hout, hout2)

-----------------------------------------------------------------------------
(* call_runpod_llama, app.py:133: what one invocation returns, by the way   *)
(* the submission and the polling went                                      *)

CHUNK_SIZE == 10000

ErrorStr(msg) == <<Tok("Error:"), Tok(" "), Tok(msg)>>

\* texts the remote job may produce: 149 letters and a period; 150 letters and
\* a question mark inside white space; a text holding the error sentinel; a
\* text that stops in mid-sentence;
\* "Revenue: $5M, growth\nrevenue: $6M\nRevenue:\n: $850\n<51 letters>: $5M"
GenTexts ==
    { <<Fill(149), Tok(".")>>,
      <<Tok(" "), Fill(150), Tok("?"), Tok("\n")>>,
      <<Tok("Error:"), Tok(" "), Fill(150), Tok(".")>>,
      <<Fill(150), Tok("."), Tok(" "), Tok("and")>>,
      <<Tok("Revenue"), Tok(":"), Tok(" "), Tok("$5M"), Tok(","), Tok(" "),
        Tok("growth"), Tok("\n"), Tok("revenue"), Tok(":"), Tok(" "), Tok("$6M"), Tok("\n"),
        Tok("Revenue"), Tok(":"), Tok("\n"),
        Tok(":"), Tok(" "), Tok("$850"), Tok("\n"),
        Fill(51), Tok(":"), Tok(" "), Tok("$5M")>> }

RunpodOutcomes ==
    {[kind |-> k, out |-> <<>>] :
        k \in {"no_key", "submit_failed", "no_job_id", "completed_empty", "failed",
               "poll_timeout", "api_timeout", "exception"}}
      \cup {[kind |-> "completed", out |-> g] : g \in GenTexts}

\* the string call_runpod_llama returns
call_runpod_llama(o) ==
    CASE o.kind = "no_key" -> ErrorStr("RunPod API key not configured")
      [] o.kind = "submit_failed" -> ErrorStr("RunPod submission failed 500")
      [] o.kind = "no_job_id" -> ErrorStr("No job ID received from RunPod")
      [] o.kind = "completed" -> Strip(o.out)
      [] o.kind = "completed_empty" -> ErrorStr("Job completed but no output available")
      [] o.kind = "failed" -> ErrorStr("RunPod job failed - Unknown error")
      [] o.kind = "poll_timeout" ->
            ErrorStr("RunPod job timeout - took too long to complete")
      [] o.kind = "api_timeout" -> ErrorStr("RunPod API timeout")
      [] OTHER -> ErrorStr("connection reset")

\* how the try block around a call of call_runpod_llama ends (app.py:936-964):
\* with the string the call returned, or with an exception raised by a
\* statement of the block, which the handler of app.py:965 takes
CallResults ==
    {[kind |-> "return", out |-> call_runpod_llama(o)] : o \in RunpodOutcomes}
      \cup {[kind |-> "raise", out |-> <<>>]}

\* "Error:" in s
HasError(s) == \E i \in 1..Len(s) : s[i].s = "Error:" /\ s[i].n = FullLen("Error:")

Succeeded(r) == r.kind = "return" /\ ~HasError(r.out)

-----------------------------------------------------------------------------
(* process_full_document, app.py:928 *)

\* SummaryComplete with >= in place of > in the length test
SummaryComplete_AtLeast150(r) ==
    /\ r.kind = "return"
    /\ ~HasError(r.out)
    /\ StrLen(Strip(r.out)) >= 150
    /\ EndsWith(Strip(r.out), {".", "!", "?"})

\* app.py:956-958
SummaryComplete(r) ==
    /\ r.kind = "return"
    /\ ~HasError(r.out)
    /\ StrLen(Strip(r.out)) > 150
    /\ EndsWith(Strip(r.out), {".", "!", "?"})

\* EnhanceSummary replacing the summary alone
EnhanceSummary_SummaryOnly(extracted_data, r) ==
    IF SummaryComplete(r)
    THEN DictV([extracted_data.v EXCEPT !.summary = StrV(Strip(r.out))])
    ELSE extracted_data

\* EnhanceSummary recording a failed attempt in the result
EnhanceSummary_RecordsError(extracted_data, r) ==
    IF SummaryComplete(r)
    THEN DictV([extracted_data.v EXCEPT !.summary = StrV(Strip(r.out)),
                                        !.insights = StrV(Strip(r.out))])
    ELSE DictV(Update(extracted_data.v, [error |-> StrV(r.out)]))

\* app.py:953-968: extracted_data after the AI enhancement attempt that ended r
EnhanceSummary(extracted_data, r) ==
    IF SummaryComplete(r)
    THEN DictV([extracted_data.v EXCEPT !.summary = StrV(Strip(r.out)),
                                        !.insights = StrV(Strip(r.out))])
    ELSE extracted_data

\* str(e) of an unexpected exception
FaultText == <<Tok("unexpected fault")>>

-----------------------------------------------------------------------------
(* chunk_text, app.py:63 *)

RECURSIVE WordsOf(_, _)
\* text.split(): cur is the word being read
WordsOf(s, cur) ==
    IF s = <<>> THEN (IF cur = <<>> THEN <<>> ELSE <<cur>>)
    ELSE IF IsWS(Head(s))
         THEN (IF cur = <<>> THEN <<>> ELSE <<cur>>) \o WordsOf(Tail(s), <<>>)
         ELSE WordsOf(Tail(s), Append(cur, Head(s)))

RECURSIVE ChunkLoop(_, _, _, _)
\* app.py:73-84
ChunkLoop(words, current_chunk, current_length, max_chars) ==
    IF words = <<>>
    THEN (IF current_chunk # <<>> THEN <<Join(<<Tok(" ")>>, current_chunk)>> ELSE <<>>)
    ELSE LET word_length == StrLen(Head(words)) + 1
         IN  IF current_length + word_length > max_chars /\ current_chunk # <<>>
             THEN <<Join(<<Tok(" ")>>, current_chunk)>>
                    \o ChunkLoop(Tail(words), <<Head(words)>>, word_length, max_chars)
             ELSE ChunkLoop(Tail(words), Append(current_chunk, Head(words)),
                            current_length + word_length, max_chars)

chunk_text(txt, max_chars) ==
    IF StrLen(txt) <= max_chars THEN <<txt>>
    ELSE ChunkLoop(WordsOf(txt, <<>>), <<>>, 0, max_chars)

-----------------------------------------------------------------------------
(* process_with_chunking, app.py:1120 *)

RECURSIVE Suffix(_, _)
\* s[k:]: a token that straddles position k is cut; a cut word keeps its name
\* and its remaining length
Suffix(s, k) ==
    IF s = <<>> \/ k <= 0 THEN s
    ELSE IF Head(s).n <= k THEN Suffix(Tail(s), k - Head(s).n)
    ELSE <<[s |-> Head(s).s, n |-> Head(s).n - k]>> \o Tail(s)

\* s.lower().startswith(w + ':') for a word w
StartsWithLabel(s, w) ==
    /\ Len(s) >= 2
    /\ IsFull(s[1]) /\ Lower(s[1].s) = w
    /\ s[2].s = ":" /\ s[2].n = 1

RECURSIVE StripChar(_, _)
\* s.strip(c) for a character c
StripChar(s, c) ==
    IF s # <<>> /\ Head(s).s = c THEN StripChar(Tail(s), c)
    ELSE IF s # <<>> /\ s[Len(s)].s = c THEN StripChar(SubSeq(s, 1, Len(s) - 1), c)
    ELSE s

\* app.py:1147-1154: all_summaries after the summary call returned s
AddSummary(summaries, s) ==
    IF ~HasError(s) /\ StrLen(Strip(s)) > 20
    THEN LET clean_summary == Strip(s)
         IN  Append(summaries,
                    IF StartsWithLabel(clean_summary, "summary")
                    THEN Strip(Suffix(clean_summary, 8)) ELSE clean_summary)
    ELSE summaries

\* s.split(':', 1)[1]
AfterFirstColon(s) ==
    LET at == {i \in 1..Len(s) : s[i].s = ":" /\ s[i].n = 1}
    IN  IF at = {} THEN <<>>
        ELSE SubSeq(s, (CHOOSE i \in at : \A j \in at : i <= j) + 1, Len(s))

\* s.split(':', 1)[0]
BeforeFirstColon(s) ==
    LET at == {i \in 1..Len(s) : s[i].s = ":" /\ s[i].n = 1}
    IN  IF at = {} THEN s
        ELSE SubSeq(s, 1, (CHOOSE i \in at : \A j \in at : i <= j) - 1)

\* app.py:1163-1175: all_keywords after the keywords call returned s
AddKeywords(keywords, s) ==
    IF ~HasError(s) /\ StrLen(Strip(s)) > 3
    THEN LET stripped == Strip(s)
             clean_keywords == IF StartsWithLabel(stripped, "terms")
                               THEN Strip(AfterFirstColon(stripped)) ELSE stripped
             parts == Split(clean_keywords, ",")
             cleaned == [i \in 1..Len(parts) |->
                           StripChar(StripChar(Strip(parts[i]), "\""), "'")]
             kept == SelectSeq(cleaned, LAMBDA k : k # <<>> /\ StrLen(k) > 2
                                                    /\ StrLen(k) < 30)
         IN  keywords \o [i \in 1..Len(Take(kept, 5)) |-> StrV(kept[i])]
    ELSE keywords

\* LineMetric without the test of app.py:1198 on name and value
LineMetric_Unfiltered(raw_line) ==
    LET line == Strip(raw_line)
        name == Strip(StripChar(StripChar(Strip(BeforeFirstColon(line)), "-"), "bullet"))
        value == Strip(AfterFirstColon(line))
    IN  IF /\ \E i \in 1..Len(line) : line[i].s = ":"
           /\ StrLen(line) > 5 /\ StrLen(line) < 100
        THEN <<DictV([name |-> StrV(name), value |-> StrV(value),
                      unit |-> StrV(<<>>), category |-> Lit("General")])>>
        ELSE <<>>

\* app.py:1194-1205: the metric a line gives, as a list of zero or one dict
\* (the token named "bullet" is the one-character U+2022)
LineMetric(raw_line) ==
    LET line == Strip(raw_line)
        name == Strip(StripChar(StripChar(Strip(BeforeFirstColon(line)), "-"), "bullet"))
        value == Strip(AfterFirstColon(line))
    IN  IF /\ \E i \in 1..Len(line) : line[i].s = ":"
           /\ StrLen(line) > 5 /\ StrLen(line) < 100
           /\ name # <<>> /\ value # <<>> /\ StrLen(name) < 50
        THEN <<DictV([name |-> StrV(name), value |-> StrV(value),
                      unit |-> StrV(<<>>), category |-> Lit("General")])>>
        ELSE <<>>

RECURSIVE LinesMetrics(_)
LinesMetrics(lines) ==
    IF lines = <<>> THEN <<>> ELSE LineMetric(Head(lines)) \o LinesMetrics(Tail(lines))

\* app.py:1184-1205: all_metrics after the metrics call returned s
AddMetrics(metrics, s) ==
    IF ~HasError(s) /\ StrLen(Strip(s)) > 10
    THEN LET stripped == Strip(s)
             clean_metrics == IF StartsWithLabel(stripped, "metrics")
                              THEN Strip(Suffix(stripped, 8)) ELSE stripped
         IN  metrics \o LinesMetrics(Split(clean_metrics, "\n"))
    ELSE metrics

\* the strings call_runpod_llama can return
Returns == {r.out : r \in {c \in CallResults : c.kind = "return"}}

\* what a call in a chunk can do: the entries its parser appends for the string
\* returned, and whether the string is free of the error sentinel
SummaryOutcomes == {[add |-> AddSummary(<<>>, s), ok |-> ~HasError(s)] : s \in Returns}
KeywordOutcomes == {[add |-> AddKeywords(<<>>, s), ok |-> ~HasError(s)] : s \in Returns}
MetricOutcomes == {[add |-> AddMetrics(<<>>, s), ok |-> ~HasError(s)] : s \in Returns}

\* lists of up to MaxPhrases chunk summaries: what all_summaries holds after the
\* loop over the chunks of a request text, one summary at most for each chunk
ChunkSummaryLists ==
    LET added == UNION {{o.add[i] : i \in 1..Len(o.add)} : o \in SummaryOutcomes}
    IN  UNION {[1..n -> added] : n \in 0..MaxPhrases}

\* ' '.join(all_summaries)[:800] on these lists, computed once
FinalSummaryOf ==
    [ss \in ChunkSummaryLists |-> Prefix(Join(<<Tok(" ")>>, ss), 800)] @@ <<>>

\* list(set(all_keywords))[:10]: every order of the distinct keywords
ChunkKeywordOrders(keywords) ==
    LET S == {keywords[i] : i \in 1..Len(keywords)}
        k == IF Cardinality(S) < 10 THEN Cardinality(S) ELSE 10
    IN  {f \in [1..k -> S] : \A i, j \in 1..k : f[i] = f[j] => i = j}

\* app.py:1208-1222
ChunkedResult(txt, summaries, final_keywords, metrics, n, clock) ==
    DictV([summary |-> IF summaries # <<>>
                       THEN StrV(IF summaries \in ChunkSummaryLists
                                 THEN FinalSummaryOf[summaries]
                                 ELSE Prefix(Join(<<Tok(" ")>>, summaries), 800))
                       ELSE Lit("Summary not available"),
           keywords |-> ListV(final_keywords),
           metrics |-> ListV(metrics),
           insights |-> StrV(<<Tok("Document processed using "), NumTok(n),
                               Tok(" chunks with local AI analysis")>>),
           plotData |-> ListV(<<>>),
           processing_mode |-> Lit("chunked"),
           chunk_count |-> IntV(n),
           original_length |-> IntV(StrLen(txt)),
           timestamp |-> Stamp(clock)])

-----------------------------------------------------------------------------
(* validate_extracted_metrics, app.py:581.  Its strings are written character *)
(* by character: every token is one character                                *)

\* longest list of candidates offered to validate_extracted_metrics
MaxCandidates == 2

\* the string of the characters cs
Chars(cs) == [i \in 1..Len(cs) |-> Tok(cs[i])]

DigitChars == {"0", "1", "2", "3", "4", "5", "6", "7", "8", "9"}

\* sub in s
Contains(s, sub) ==
    \E i \in 0..(Len(s) - Len(sub)) : SubSeq(s, i + 1, i + Len(sub)) = sub

RECURSIVE Remove(_, _)
\* s.replace(old, '')
Remove(s, old) ==
    IF Len(s) < Len(old) THEN s
    ELSE IF SubSeq(s, 1, Len(old)) = old
         THEN Remove(SubSeq(s, Len(old) + 1, Len(s)), old)
         ELSE <<Head(s)>> \o Remove(Tail(s), old)

RECURSIVE RunLen(_, _, _)
\* the number of consecutive characters of S in v from position i on
RunLen(v, i, S) == IF i <= Len(v) /\ v[i].s \in S THEN 1 + RunLen(v, i + 1, S) ELSE 0

RECURSIVE NumbersIn(_)
\* re.findall(r'[\d,]+(?:\.\d+)?', v), app.py:593
NumbersIn(v) ==
    IF v = <<>> THEN <<>>
    ELSE IF Head(v).s \notin DigitChars \cup {","} THEN NumbersIn(Tail(v))
    ELSE LET k == RunLen(v, 1, DigitChars \cup {","})
             frac == IF k + 2 <= Len(v) /\ v[k + 1].s = "." /\ v[k + 2].s \in DigitChars
                     THEN 1 + RunLen(v, k + 2, DigitChars) ELSE 0
         IN  <<SubSeq(v, 1, k + frac)>> \o NumbersIn(SubSeq(v, k + frac + 1, Len(v)))

\* app.py:596-602
NameVariations(name) ==
    LET name_words == WordsOf(name, <<>>)
    IN  << name,
           Join(<<Tok(" ")>>, name_words),
           IF name_words # <<>> THEN name_words[1] ELSE <<>>,
           Strip(Remove(Remove(name, Chars(<<"r", "a", "t", "e">>)),
                        Chars(<<"c", "o", "u", "n", "t">>))) >>

\* app.py:587-608: whether the candidate is appended to validated
Validated(metric, original_text) ==
    /\ \E i \in 1..Len(metric) : metric[i].s = ":"
    /\ LET text_lower == LowerStr(original_text)
           name == LowerStr(Strip(BeforeFirstColon(metric)))
           value == Strip(AfterFirstColon(metric))
           numbers_in_metric == NumbersIn(value)
           name_variations == NameVariations(name)
           name_found == \E i \in 1..Len(name_variations) :
                            /\ StrLen(name_variations[i]) > 2
                            /\ Contains(text_lower, name_variations[i])
           number_found == \E i \in 1..Len(numbers_in_metric) :
                              Contains(original_text, numbers_in_metric[i])
       IN  name_found \/ number_found

validate_extracted_metrics(metrics, original_text) ==
    SelectSeq(metrics, LAMBDA metric : Validated(metric, original_text))

\* candidates: "CAP: 7", "cap fee: 7", "ratecap: 7", "fee: 12", "fee: 99",
\* "fee: a, 99", "ca: 99", "fee 12", "fee: 1.2"
Candidates ==
    { Chars(<<"C", "A", "P", ":", " ", "7">>),
      Chars(<<"c", "a", "p", " ", "f", "e", "e", ":", " ", "7">>),
      Chars(<<"r", "a", "t", "e", "c", "a", "p", ":", " ", "7">>),
      Chars(<<"f", "e", "e", ":", " ", "1", "2">>),
      Chars(<<"f", "e", "e", ":", " ", "9", "9">>),
      Chars(<<"f", "e", "e", ":", " ", "a", ",", " ", "9", "9">>),
      Chars(<<"c", "a", ":", " ", "9", "9">>),
      Chars(<<"f", "e", "e", " ", "1", "2">>),
      Chars(<<"f", "e", "e", ":", " ", "1", ".", "2">>) }

\* source texts: "cap, 12", "Cap 1.2", ""
SourceTexts ==
    { Chars(<<"c", "a", "p", ",", " ", "1", "2">>),
      Chars(<<"C", "a", "p", " ", "1", ".", "2">>),
      <<>> }

CandidateLists ==
    UNION {[1..n -> Candidates] : n \in 0..MaxCandidates}

CvInit ==
    /\ ReqIdle
    /\ RunpodIdle
    /\ ToggleIdle
    /\ hin \in {[metrics |-> ms, original_text |-> t] :
                    ms \in CandidateLists, t \in SourceTexts}
    /\ hout = NoneV
    /\ hout2 = NoneV
    /\ hpc = "candidates"

CrossValidate ==
    /\ hpc = "candidates"
    /\ hout' = validate_extracted_metrics(hin.metrics, hin.original_text)
    /\ hpc' = "validated"
    /\ UNCHANGED <<hin, hout2>>
    /\ UNCHANGED runpodVars
    /\ UNCHANGED <<reqVars, toggle_calls>>

SpecCrossValidate == CvInit /\ [][CrossValidate]_vars

\* a number: digits, with commas and a decimal part
IsNumber(n) == \E i \in 1..Len(n) : n[i].s \in DigitChars

\* a name variant of the candidate occurs in the source whatever the case, or
\* a number of its value occurs in the source
Grounded(metric, original_text) ==
    LET name == LowerStr(Strip(BeforeFirstColon(metric)))
        numbers == NumbersIn(Strip(AfterFirstColon(metric)))
        variants == NameVariations(name)
    IN  \/ \E i \in 1..Len(variants) :
              variants[i] # <<>> /\ Contains(LowerStr(original_text), variants[i])
        \/ \E i \in 1..Len(numbers) :
              IsNumber(numbers[i]) /\ Contains(original_text, numbers[i])

RECURSIVE IsSubsequence(_, _)
\* a is b with some elements left out
IsSubsequence(a, b) ==
    IF a = <<>> THEN TRUE
    ELSE IF b = <<>> THEN FALSE
    ELSE IF Head(a) = Head(b) THEN IsSubsequence(Tail(a), Tail(b))
    ELSE IsSubsequence(a, Tail(b))

\* C12: every candidate validate_extracted_metrics accepts is grounded in the
\* source text (a name variant occurs in it whatever the case, or a number
\* taken from the value occurs in it verbatim), and the output is an
\* order-preserving subsequence of the candidates
C12_Grounding ==
    hpc = "validated" =>
        /\ IsSubsequence(hout, hin.metrics)
        /\ \A i \in 1..Len(hout) : Grounded(hout[i], hin.original_text)

\* what remains true: the output is an order-preserving subsequence of the
\* candidates, and each accepted candidate has a name variant in the source or
\* a match of the number pattern (a lone comma included) in the source
C12_GroundedUpToCommas ==
    hpc = "validated" =>
        /\ IsSubsequence(hout, hin.metrics)
        /\ \A i \in 1..Len(hout) :
              \/ Grounded(hout[i], hin.original_text)
              \/ Contains(hin.original_text, Chars(<<",">>))

-----------------------------------------------------------------------------
(* extract_data_from_text_simple applied to the request texts, the empty     *)
(* text, texts without a period and texts of several hundred words           *)

\* n words of three letters separated by single spaces, as one token
Words(n) == <<[s |-> "x x", n |-> 4 * n - 1]>>

\* one sentence of n words
Sentence(n) == Words(n) \o <<Tok(".")>>

\* a short and a long text without a period; periods only; white space only;
\* one sentence of 199, 200, 210, 249, 250 or 260 words; two sentences of 60
\* to 150 words each
SummaryTexts ==
    { <<Fill(10)>>,
      <<Fill(40)>>,
      <<Tok("."), Tok("."), Tok(".")>>,
      <<Tok(" "), Tok("\n")>> }
      \cup {Sentence(n) : n \in {199, 200, 210, 249, 250, 260}}
      \cup {Sentence(a) \o <<Tok(" ")>> \o Sentence(b) : a, b \in {60, 100, 120, 150}}

ExtractInputs ==
    UNION {{[text |-> t, keywords |-> kw] : kw \in KeywordOrders(KeywordSet(t))} :
              t \in Texts \cup SummaryTexts}

ExtractInit ==
    /\ ReqIdle
    /\ RunpodIdle
    /\ ToggleIdle
    /\ hin \in ExtractInputs
    /\ hout = NoneV
    /\ hout2 = NoneV
    /\ hpc = "text"

ExtractOnce ==
    /\ hpc = "text"
    /\ hout' = extract_data_from_text_simple(hin.text, hin.keywords, 0)
    /\ hpc' = "extracted"
    /\ UNCHANGED <<hin, hout2>>
    /\ UNCHANGED runpodVars
    /\ UNCHANGED <<reqVars, toggle_calls>>

SpecExtract == ExtractInit /\ [][ExtractOnce]_vars

-----------------------------------------------------------------------------
(* chunk_text applied to short texts under small budgets *)

\* number of tokens of the longest text offered to chunk_text
MaxTextToks == 4
\* largest max_chars offered to chunk_text
MaxBudget == 6

\* words of 1, 3 and 7 letters and the space; tokens that touch form one word
ChunkTokens == {Fill(1), Fill(3), Fill(7), Tok(" ")}

ChunkTexts == UNION {[1..n -> ChunkTokens] : n \in 0..MaxTextToks}

ChunkInit ==
    /\ ReqIdle
    /\ RunpodIdle
    /\ ToggleIdle
    /\ hin \in {[text |-> t, max_chars |-> m] : t \in ChunkTexts, m \in 1..MaxBudget}
    /\ hout = NoneV
    /\ hout2 = NoneV
    /\ hpc = "text"

ChunkOnce ==
    /\ hpc = "text"
    /\ hout' = ListV(chunk_text(hin.text, hin.max_chars))
    /\ hpc' = "chunks"
    /\ UNCHANGED <<hin, hout2>>
    /\ UNCHANGED runpodVars
    /\ UNCHANGED <<reqVars, toggle_calls>>

SpecChunk == ChunkInit /\ [][ChunkOnce]_vars

-----------------------------------------------------------------------------
(* One invocation of call_runpod_llama by process_full_document, followed    *)
(* network round trip by network round trip, app.py:133-248 and 953-968      *)

\* app.py:178
max_polls == 60

\* how requests.post at app.py:162 can end: status 200 with a job id, another
\* status code, status 200 without an id, requests.Timeout, another exception
SubmitAnswers == {"200", "500", "no_id", "timeout", "exception"}

\* how requests.get at app.py:184 can end: the status code is not 200, a job
\* status, requests.Timeout or another exception; a COMPLETED job comes with
\* its output, <<>> when the output is missing or empty
PollAnswers ==
    {[status |-> st, out |-> <<>>] :
        st \in {"non200", "IN_QUEUE", "IN_PROGRESS", "UNKNOWN", "COMPLETED", "FAILED",
                "timeout", "exception"}}
      \cup {[status |-> "COMPLETED", out |-> g] : g \in GenTexts}

\* OnException letting the exception leave the function
OnException_Propagates(exc) == [pc |-> "raised", out |-> <<>>]

\* app.py:243-248: the two except clauses
OnException(exc) ==
    [pc |-> "returned",
     out |-> call_runpod_llama([kind |-> IF exc = "timeout" THEN "api_timeout"
                                         ELSE "exception",
                                out |-> <<>>])]

\* NextPollCount leaving the loop index as it is after a non-200 answer
NextPollCount_RetryUncounted(count, answer) ==
    IF answer = "non200" THEN count ELSE count + 1

\* app.py:181: the loop index after a turn ended by `continue`
NextPollCount(count, answer) == count + 1

\* what process_full_document holds when it calls: whether the API key is
\* configured, and the pattern-extracted data
RunpodInputs ==
    {[api_key |-> k, extracted_data |-> extract_data_from_text_simple(t, kw, 0)] :
        k \in BOOLEAN,
        t \in {PhRevenue, PhGrowth \o PhCustomers},
        kw \in KeywordOrders(KeywordSet(PhGrowth))}

RpInit ==
    /\ ReqIdle
    /\ RunpodIdle
    /\ ToggleIdle
    /\ hin \in RunpodInputs
    /\ hout = NoneV
    /\ hout2 = NoneV
    /\ hpc = "call"

\* app.py:136-138
RpNoKey ==
    /\ hpc = "call"
    /\ ~hin.api_key
    /\ hout' = StrV(call_runpod_llama([kind |-> "no_key", out |-> <<>>]))
    /\ hpc' = "returned"
    /\ UNCHANGED <<hin, hout2>>
    /\ UNCHANGED runpodVars
    /\ UNCHANGED <<reqVars, toggle_calls>>

\* app.py:162-174
RpSubmit ==
    /\ hpc = "call"
    /\ hin.api_key
    /\ submits' = submits + 1
    /\ \E a \in SubmitAnswers :
         /\ submit_status' = a
         /\ CASE a = "200" -> hpc' = "polling" /\ hout' = hout
              [] a = "500" ->
                    /\ hpc' = "returned"
                    /\ hout' = StrV(call_runpod_llama([kind |-> "submit_failed", out |-> <<>>]))
              [] a = "no_id" ->
                    /\ hpc' = "returned"
                    /\ hout' = StrV(call_runpod_llama([kind |-> "no_job_id", out |-> <<>>]))
              [] OTHER ->
                    /\ hpc' = OnException(a).pc
                    /\ hout' = StrV(OnException(a).out)
    /\ UNCHANGED <<hin, hout2, polls, poll_count, job_status>>
    /\ UNCHANGED <<reqVars, toggle_calls>>

\* app.py:181-238: one turn of the polling loop
RpPoll ==
    /\ hpc = "polling"
    /\ poll_count < max_polls
    /\ polls' = polls + 1
    /\ \E a \in PollAnswers :
         /\ job_status' = a
         /\ CASE a.status \in {"non200", "IN_QUEUE", "IN_PROGRESS", "UNKNOWN"} ->
                    /\ poll_count' = NextPollCount(poll_count, a.status)
                    /\ UNCHANGED <<hpc, hout>>
              [] a.status = "COMPLETED" ->
                    /\ hpc' = "returned"
                    /\ hout' = StrV(call_runpod_llama(
                                  [kind |-> IF a.out # <<>> THEN "completed"
                                            ELSE "completed_empty",
                                   out |-> a.out]))
                    /\ UNCHANGED poll_count
              [] a.status = "FAILED" ->
                    /\ hpc' = "returned"
                    /\ hout' = StrV(call_runpod_llama([kind |-> "failed", out |-> <<>>]))
                    /\ UNCHANGED poll_count
              [] OTHER ->
                    /\ hpc' = OnException(a.status).pc
                    /\ hout' = StrV(OnException(a.status).out)
                    /\ UNCHANGED poll_count
    /\ UNCHANGED <<hin, hout2, submits, submit_status>>
    /\ UNCHANGED <<reqVars, toggle_calls>>

\* app.py:240-241: the loop ran out
RpExhausted ==
    /\ hpc = "polling"
    /\ poll_count >= max_polls
    /\ hout' = StrV(call_runpod_llama([kind |-> "poll_timeout", out |-> <<>>]))
    /\ hpc' = "returned"
    /\ UNCHANGED <<hin, hout2>>
    /\ UNCHANGED runpodVars
    /\ UNCHANGED <<reqVars, toggle_calls>>

\* app.py:953-968: process_full_document goes on with the string returned
RpResume ==
    /\ hpc = "returned"
    /\ hout2' = EnhanceSummary(hin.extracted_data, [kind |-> "return", out |-> hout.v])
    /\ hpc' = "resumed"
    /\ UNCHANGED <<hin, hout>>
    /\ UNCHANGED runpodVars
    /\ UNCHANGED <<reqVars, toggle_calls>>

RpNext ==
    \/ RpNoKey
    \/ RpSubmit
    \/ RpPoll
    \/ RpExhausted
    \/ RpResume

SpecRunpod == RpInit /\ [][RpNext]_vars

\* every round trip ends: requests.post has timeout=30, requests.get has
\* timeout=15, and time.sleep(poll_interval) lasts 4 seconds
FairSpecRunpod == SpecRunpod /\ WF_vars(RpNext)

-----------------------------------------------------------------------------
(* The service: POST /toggle-chunking and POST /process-sensitive-document  *)

HarnessIdle ==
    /\ hin = NoneV
    /\ hout = NoneV
    /\ hout2 = NoneV
    /\ hpc = "off"
    /\ RunpodIdle
    /\ ToggleIdle

Init == ReqIdle /\ HarnessIdle

\* toggle_chunking, app.py:864: enable_chunking given (new_mode a bool) or not
toggle_chunking(new_mode) ==
    /\ USE_CHUNKING' = IF new_mode = "None" THEN ~USE_CHUNKING ELSE (new_mode = "True")
    /\ UNCHANGED <<pc, text, mode, result, pattern, ai_summary, any_success, chunks,
                   chunk_i, all_summaries, all_keywords, all_metrics, response, status,
                   via, faulted, now>>
    /\ UNCHANGED harnessVars

Toggle == \E new_mode \in {"None", "True", "False"} : toggle_chunking(new_mode)

\* Receive sending an empty text on to the dispatch
Receive_DispatchesEmpty ==
    /\ pc = "idle"
    /\ \E t \in Texts :
         /\ text' = t
         /\ pc' = "dispatch"
         /\ UNCHANGED <<response, status, via>>
    /\ UNCHANGED <<USE_CHUNKING, mode, result, pattern, ai_summary, any_success, chunks,
                   chunk_i, all_summaries, all_keywords, all_metrics, faulted, now>>
    /\ UNCHANGED harnessVars

\* app.py:889-895: the body is read; an empty text is answered with 400
Receive ==
    /\ pc = "idle"
    /\ \E t \in Texts :
         /\ text' = t
         /\ IF t = <<>>
            THEN /\ response' = DictV([error |-> Lit("No text provided")])
                 /\ status' = 400
                 /\ via' = "no_text"
                 /\ pc' = "done"
            ELSE /\ pc' = "dispatch"
                 /\ UNCHANGED <<response, status, via>>
    /\ UNCHANGED <<USE_CHUNKING, mode, result, pattern, ai_summary, any_success, chunks,
                   chunk_i, all_summaries, all_keywords, all_metrics, faulted, now>>
    /\ UNCHANGED harnessVars

\* app.py:889-890 raise (the body is not a JSON object): handler of app.py:924
ReceiveMalformed ==
    /\ pc = "idle"
    /\ response' = create_robust_fallback_response(<<>>, StrV(FaultText), now)
    /\ status' = 500
    /\ via' = "outer_except"
    /\ faulted' = "request"
    /\ now' = now + 1
    /\ pc' = "done"
    /\ UNCHANGED <<USE_CHUNKING, text, mode, result, pattern, ai_summary, any_success,
                   chunks, chunk_i, all_summaries, all_keywords, all_metrics>>
    /\ UNCHANGED harnessVars

\* app.py:902
Dispatch ==
    /\ pc = "dispatch"
    /\ mode' = IF USE_CHUNKING THEN "chunked" ELSE "full"
    /\ pc' = IF USE_CHUNKING THEN "pwc_start" ELSE "pfd_extract"
    /\ UNCHANGED <<USE_CHUNKING, text, result, pattern, ai_summary, any_success, chunks,
                   chunk_i, all_summaries, all_keywords, all_metrics, response, status,
                   via, faulted, now>>
    /\ UNCHANGED harnessVars

\* process_full_document, app.py:933
PfdExtract ==
    /\ pc = "pfd_extract"
    /\ now' = now + 1
    /\ pc' = "pfd_generate"
    /\ UNCHANGED <<USE_CHUNKING, text, mode, ai_summary, any_success, chunks, chunk_i,
                   all_summaries, all_keywords, all_metrics, response, status, via,
                   faulted>>
    /\ UNCHANGED harnessVars
    /\ \E keywords \in KeywordOrders(KeywordSet(text)) :
         /\ pattern' = extract_data_from_text_simple(text, keywords, now)
         /\ result' = pattern'

\* process_full_document, app.py:936-968
PfdGenerate ==
    /\ pc = "pfd_generate"
    /\ pc' = "validate"
    /\ UNCHANGED <<USE_CHUNKING, text, mode, pattern, chunks, chunk_i, all_summaries,
                   all_keywords, all_metrics, response, status, via, faulted, now>>
    /\ UNCHANGED harnessVars
    /\ \E r \in CallResults :
         /\ ai_summary' = r
         /\ any_success' = Succeeded(r)
         /\ result' = EnhanceSummary(result, r)

\* process_full_document, app.py:970-972: the extraction raised
PfdFault ==
    /\ pc = "pfd_extract"
    /\ result' = create_robust_fallback_response(
                    text, StrV(<<Tok("Document processing failed: ")>> \o FaultText), now)
    /\ faulted' = "pfd"
    /\ now' = now + 1
    /\ pc' = "validate"
    /\ UNCHANGED <<USE_CHUNKING, text, mode, pattern, ai_summary, any_success, chunks,
                   chunk_i, all_summaries, all_keywords, all_metrics, response, status,
                   via>>
    /\ UNCHANGED harnessVars

\* PwcStart reading the flag again and leaving for the full-document path
\* when it has been cleared
PwcStart_RereadsFlag ==
    /\ pc = "pwc_start"
    /\ chunk_i' = 1
    /\ UNCHANGED <<USE_CHUNKING, text, mode, result, pattern, ai_summary, any_success,
                   response, status, via, faulted, now>>
    /\ UNCHANGED harnessVars
    /\ chunks' = IF StrLen(text) > 2000 THEN chunk_text(text, CHUNK_SIZE) ELSE <<text>>
    /\ all_summaries' = <<>>
    /\ all_keywords' = <<>>
    /\ all_metrics' = <<>>
    /\ pc' = IF ~USE_CHUNKING THEN "pfd_extract"
             ELSE IF chunks' = <<>> THEN "pwc_finish" ELSE "pwc_summary"

\* process_with_chunking, app.py:1126-1134
PwcStart ==
    /\ pc = "pwc_start"
    /\ chunk_i' = 1
    /\ UNCHANGED <<USE_CHUNKING, text, mode, result, pattern, ai_summary, any_success,
                   response, status, via, faulted, now>>
    /\ UNCHANGED harnessVars
    /\ chunks' = IF StrLen(text) > 2000 THEN chunk_text(text, CHUNK_SIZE) ELSE <<text>>
    /\ all_summaries' = <<>>
    /\ all_keywords' = <<>>
    /\ all_metrics' = <<>>
    /\ pc' = IF chunks' = <<>> THEN "pwc_finish" ELSE "pwc_summary"

\* process_with_chunking, app.py:1141-1154
PwcSummary ==
    /\ pc = "pwc_summary"
    /\ pc' = "pwc_keywords"
    /\ UNCHANGED <<USE_CHUNKING, text, mode, result, pattern, ai_summary, chunks, chunk_i,
                   all_keywords, all_metrics, response, status, via, faulted, now>>
    /\ UNCHANGED harnessVars
    /\ \E o \in SummaryOutcomes :
         /\ all_summaries' = all_summaries \o o.add
         /\ any_success' = (any_success \/ o.ok)

\* process_with_chunking, app.py:1157-1175
PwcKeywords ==
    /\ pc = "pwc_keywords"
    /\ pc' = "pwc_metrics"
    /\ UNCHANGED <<USE_CHUNKING, text, mode, result, pattern, ai_summary, chunks, chunk_i,
                   all_summaries, all_metrics, response, status, via, faulted, now>>
    /\ UNCHANGED harnessVars
    /\ \E o \in KeywordOutcomes :
         /\ all_keywords' = all_keywords \o o.add
         /\ any_success' = (any_success \/ o.ok)

\* process_with_chunking, app.py:1178-1205, and the next turn of the loop
PwcMetrics ==
    /\ pc = "pwc_metrics"
    /\ chunk_i' = chunk_i + 1
    /\ pc' = IF chunk_i < Len(chunks) THEN "pwc_summary" ELSE "pwc_finish"
    /\ UNCHANGED <<USE_CHUNKING, text, mode, result, pattern, ai_summary, chunks,
                   all_summaries, all_keywords, response, status, via, faulted, now>>
    /\ UNCHANGED harnessVars
    /\ \E o \in MetricOutcomes :
         /\ all_metrics' = all_metrics \o o.add
         /\ any_success' = (any_success \/ o.ok)

\* process_with_chunking, app.py:1208-1222: the function returns and its locals
\* are gone
PwcFinish ==
    /\ pc = "pwc_finish"
    /\ now' = now + 1
    /\ pc' = "validate"
    /\ UNCHANGED <<USE_CHUNKING, text, mode, pattern, ai_summary, any_success, response,
                   status, via, faulted>>
    /\ chunks' = <<>>
    /\ chunk_i' = 0
    /\ all_summaries' = <<>>
    /\ all_keywords' = <<>>
    /\ all_metrics' = <<>>
    /\ UNCHANGED harnessVars
    /\ \E final_keywords \in ChunkKeywordOrders(all_keywords) :
         result' = ChunkedResult(text, all_summaries, final_keywords, all_metrics,
                                 Len(chunks), now)

\* process_with_chunking, app.py:1224-1226: a statement of the body raised
PwcFault ==
    /\ pc \in {"pwc_start", "pwc_summary", "pwc_keywords", "pwc_metrics", "pwc_finish"}
    /\ result' = create_robust_fallback_response(
                    text, StrV(<<Tok("Chunked processing failed: ")>> \o FaultText), now)
    /\ faulted' = "pwc"
    /\ now' = now + 1
    /\ pc' = "validate"
    /\ UNCHANGED <<USE_CHUNKING, text, mode, pattern, ai_summary, any_success, response,
                   status, via>>
    /\ chunks' = <<>>
    /\ chunk_i' = 0
    /\ all_summaries' = <<>>
    /\ all_keywords' = <<>>
    /\ all_metrics' = <<>>
    /\ UNCHANGED harnessVars

\* Validate returning the result as it is
Validate_Unnormalized ==
    /\ pc = "validate"
    /\ status' = 200
    /\ via' = "validate"
    /\ now' = now + 1
    /\ pc' = "done"
    /\ UNCHANGED <<USE_CHUNKING, text, mode, result, pattern, ai_summary, any_success,
                   chunks, chunk_i, all_summaries, all_keywords, all_metrics, faulted>>
    /\ UNCHANGED harnessVars
    /\ response' = result

\* app.py:910-918
Validate ==
    /\ pc = "validate"
    /\ status' = 200
    /\ via' = "validate"
    /\ now' = now + 1
    /\ pc' = "done"
    /\ UNCHANGED <<USE_CHUNKING, text, mode, result, pattern, ai_summary, any_success,
                   chunks, chunk_i, all_summaries, all_keywords, all_metrics, faulted>>
    /\ UNCHANGED harnessVars
    /\ response' = validate_response_format(result, now)

\* app.py:920-922: a statement of app.py:902-918 raised; the response is built
\* from the text alone and what the try block had computed is dropped
InnerFault ==
    /\ pc = "validate"
    /\ response' = create_robust_fallback_response(text, StrV(FaultText), now)
    /\ status' = 200
    /\ via' = "inner_except"
    /\ faulted' = "endpoint"
    /\ now' = now + 1
    /\ pc' = "done"
    /\ result' = NoDict
    /\ pattern' = NoDict
    /\ ai_summary' = [kind |-> "none", out |-> <<>>]
    /\ UNCHANGED <<USE_CHUNKING, text, mode, any_success, chunks, chunk_i, all_summaries,
                   all_keywords, all_metrics>>
    /\ UNCHANGED harnessVars

\* the response has been sent: the request's locals are gone
Finish ==
    /\ pc = "done"
    /\ pc' = "idle"
    /\ text' = <<>>
    /\ mode' = "none"
    /\ result' = NoDict
    /\ pattern' = NoDict
    /\ ai_summary' = [kind |-> "none", out |-> <<>>]
    /\ any_success' = FALSE
    /\ chunks' = <<>>
    /\ chunk_i' = 0
    /\ all_summaries' = <<>>
    /\ all_keywords' = <<>>
    /\ all_metrics' = <<>>
    /\ response' = NoDict
    /\ status' = 0
    /\ via' = "none"
    /\ faulted' = "none"
    /\ now' = 0
    /\ UNCHANGED USE_CHUNKING
    /\ UNCHANGED harnessVars

-----------------------------------------------------------------------------
(* toggle_chunking, app.py:864, run by several threads at once: every read   *)
(* and every write of the global USE_CHUNKING is a step of its own           *)

\* what the toggle calls leave alone
toggleFrame ==
    <<pc, text, mode, result, pattern, ai_summary, any_success, chunks, chunk_i,
      all_summaries, all_keywords, all_metrics, response, status, via, faulted, now,
      hin, hout, hout2, hpc, submits, polls, poll_count, submit_status, job_status>>

\* app.py:869-872: the body is read
TgCall(i) ==
    /\ toggle_calls[i].pc = "idle"
    /\ \E new_mode \in {"None", "True", "False"} :
         toggle_calls' = [toggle_calls EXCEPT
                            ![i].new_mode = new_mode,
                            ![i].pc = IF new_mode = "None" THEN "read" ELSE "write"]
    /\ UNCHANGED USE_CHUNKING
    /\ UNCHANGED toggleFrame

\* app.py:875: the right-hand side `not USE_CHUNKING` is evaluated
TgRead(i) ==
    /\ toggle_calls[i].pc = "read"
    /\ toggle_calls' = [toggle_calls EXCEPT ![i].read = USE_CHUNKING, ![i].pc = "write"]
    /\ UNCHANGED USE_CHUNKING
    /\ UNCHANGED toggleFrame

\* app.py:873 and 875: the global is assigned
TgWrite(i) ==
    /\ toggle_calls[i].pc = "write"
    /\ LET value == IF toggle_calls[i].new_mode = "None" THEN ~toggle_calls[i].read
                    ELSE toggle_calls[i].new_mode = "True"
       IN  /\ USE_CHUNKING' = value
           /\ toggle_calls' = [toggle_calls EXCEPT ![i].before = USE_CHUNKING,
                                                   ![i].wrote = value,
                                                   ![i].pc = "enabled"]
    /\ UNCHANGED toggleFrame

\* app.py:880
TgEnabled(i) ==
    /\ toggle_calls[i].pc = "enabled"
    /\ toggle_calls' = [toggle_calls EXCEPT ![i].chunking_enabled = USE_CHUNKING,
                                            ![i].pc = "mode"]
    /\ UNCHANGED USE_CHUNKING
    /\ UNCHANGED toggleFrame

\* app.py:881
TgMode(i) ==
    /\ toggle_calls[i].pc = "mode"
    /\ toggle_calls' = [toggle_calls EXCEPT
                           ![i].mode = IF USE_CHUNKING THEN "chunked" ELSE "full_document",
                           ![i].pc = "message"]
    /\ UNCHANGED USE_CHUNKING
    /\ UNCHANGED toggleFrame

\* app.py:882
TgMessage(i) ==
    /\ toggle_calls[i].pc = "message"
    /\ toggle_calls' = [toggle_calls EXCEPT
                           ![i].message = IF USE_CHUNKING THEN "Chunking is now enabled"
                                          ELSE "Chunking is now disabled",
                           ![i].pc = "returned"]
    /\ UNCHANGED USE_CHUNKING
    /\ UNCHANGED toggleFrame

\* the response has been sent
TgReturn(i) ==
    /\ toggle_calls[i].pc = "returned"
    /\ toggle_calls' = [toggle_calls EXCEPT ![i] = IdleCall]
    /\ UNCHANGED USE_CHUNKING
    /\ UNCHANGED toggleFrame

TgNext ==
    \E i \in Callers :
        \/ TgCall(i)
        \/ TgRead(i)
        \/ TgWrite(i)
        \/ TgEnabled(i)
        \/ TgMode(i)
        \/ TgMessage(i)
        \/ TgReturn(i)

SpecToggle == Init /\ [][TgNext]_vars

\* the steps the handler takes by itself once a request has arrived
HandlerStep ==
    \/ Dispatch
    \/ PfdExtract
    \/ PfdGenerate
    \/ PwcStart
    \/ PwcSummary
    \/ PwcKeywords
    \/ PwcMetrics
    \/ PwcFinish
    \/ Validate

Next ==
    \/ Toggle
    \/ Receive
    \/ ReceiveMalformed
    \/ HandlerStep
    \/ PfdFault
    \/ PwcFault
    \/ InnerFault
    \/ Finish

Spec == Init /\ [][Next]_vars

\* the handler runs to its return statement: no step of it waits for anything
\* but call_runpod_llama, which returns after at most max_polls polls
FairSpec == Spec /\ WF_vars(HandlerStep)

-----------------------------------------------------------------------------
(* Properties of a request *)

Answered == pc = "done" /\ text # <<>>

CoreFields == {"summary", "keywords", "metrics", "insights", "plotData"}

\* C1 (as claimed): when no call of the generation capability succeeded, the
\* response to a request with non-empty text is a valid AnalysisResult whose
\* summary is not empty and whose processedWithAI is false.
C1_FallbackGuarantee ==
    (Answered /\ ~any_success) =>
        /\ AnalysisResultOK(response)
        /\ response.v.summary.v # <<>>
        /\ response.v.processedWithAI = BoolV(FALSE)

\* C2: every request with non-empty text ends in a response that carries
\* summary, keywords, metrics, insights and plotData, whatever each generation
\* call returned and whichever chunking mode it ran in.
C2_Terminates ==
    (pc = "dispatch") ~> (pc = "done" /\ CoreFields \subseteq DOMAIN response.v)

\* C2 witness: a chunked request over several chunks, none of whose generation
\* calls succeeded, has been answered.
C2_Witness ==
    /\ Answered
    /\ mode = "chunked"
    /\ "chunk_count" \in DOMAIN result.v
    /\ result.v.chunk_count.v > 1
    /\ ~any_success
    /\ CoreFields \subseteq DOMAIN response.v

\* C3 (as claimed): every response to a request with non-empty text was built
\* by validate_response_format as the last step, on every path.
C3_AlwaysNormalized == Answered => via = "validate"

\* C3 (amended): a response to a request with non-empty text is either the
\* output of validate_response_format applied last to the processing result
\* (every path on which no fault reaches the endpoint's own handler, those
\* where process_full_document or process_with_chunking caught a fault
\* included), or the output of create_robust_fallback_response returned by the
\* endpoint's handler without normalization.
C3_NormalizedOrEndpointFallback ==
    Answered =>
        \/ /\ via = "validate"
           /\ faulted \in {"none", "pfd", "pwc"}
           /\ NormalizedShape(result, response)
           /\ response.v.timestamp = Stamp(now - 1)
        \/ /\ via = "inner_except"
           /\ faulted = "endpoint"
           /\ "fallback" \in DOMAIN response.v
           /\ response.v.summary = StrV(FallbackSummary(text))

\* C3 witness: a fault caught inside process_full_document, answered through
\* validate_response_format.
C3_Witness == Answered /\ faulted = "pfd" /\ via = "validate"

\* C4 (as claimed): after a fault anywhere in the processing of a request with
\* non-empty text the response has processedWithAI false, fallback true and an
\* error field holding the fault description.
C4_FaultReported ==
    (Answered /\ faulted # "none") =>
        /\ response.v.processedWithAI = BoolV(FALSE)
        /\ "fallback" \in DOMAIN response.v /\ response.v.fallback = BoolV(TRUE)
        /\ "error" \in DOMAIN response.v
        /\ \E k \in 0..1 : SubSeq(response.v.error.v, k + 1, k + Len(FaultText)) = FaultText

\* process_full_document has returned the extractor's dict
FullResult == mode = "full" /\ pattern # NoDict /\ pc \in {"validate", "done"}

\* C5: in process_full_document summary and insights equal the stripped
\* generated text when the call returned text without "Error:", of stripped
\* length above 150, ending in '.', '!' or '?'; in every other case both equal
\* the pattern extractor's summary.
C5_OverwriteOnlyIfComplete ==
    FullResult =>
        LET r == ai_summary
            complete == /\ r.kind = "return"
                        /\ \A i \in 1..Len(r.out) : r.out[i] # Tok("Error:")
                        /\ StrLen(Strip(r.out)) > 150
                        /\ LastChar(Strip(r.out)[Len(Strip(r.out))]) \in {".", "!", "?"}
        IN  IF complete
            THEN /\ result.v.summary = StrV(Strip(r.out))
                 /\ result.v.insights = StrV(Strip(r.out))
            ELSE /\ result.v.summary = pattern.v.summary
                 /\ result.v.insights = pattern.v.summary

\* C5 witness: a generated text of 151 characters was accepted.
C5_Witness ==
    /\ FullResult
    /\ ai_summary.kind = "return"
    /\ StrLen(ai_summary.out) = 151
    /\ result.v.summary = StrV(ai_summary.out)
    /\ result.v.summary # pattern.v.summary

\* C6: the generation outcome changes no field of process_full_document's
\* result other than summary and insights, and a failed generation adds no
\* error field.
C6_FrameOfGeneration ==
    FullResult =>
        /\ DOMAIN result.v = DOMAIN pattern.v
        /\ \A k \in DOMAIN pattern.v \ {"summary", "insights"} : result.v[k] = pattern.v[k]
        /\ "error" \notin DOMAIN result.v

\* C6 witness: the generation call failed on a text that has metrics.
C6_Witness ==
    /\ FullResult
    /\ \/ ai_summary.kind = "raise"
       \/ ai_summary.kind = "return" /\ HasError(ai_summary.out)
    /\ pattern.v.metrics.v # <<>>
    /\ pattern.v.keywords.v # <<>>

PlotValid(p) ==
    /\ p.t = "dict"
    /\ {"type", "labels", "values"} \subseteq DOMAIN p.v
    /\ p.v.labels.t = "list" /\ p.v.values.t = "list"
    /\ Len(p.v.labels.v) = Len(p.v.values.v)
    /\ Len(p.v.labels.v) >= 2 /\ Len(p.v.labels.v) <= 6
    /\ p.v.type \in {Lit("bar"), Lit("line"), Lit("pie")}

\* C9 (as claimed): every plot descriptor of a response has as many labels as
\* values, between 2 and 6 labels, and type bar, line or pie.
C9_PlotValidity ==
    (Answered /\ "plotData" \in DOMAIN response.v) =>
        \A i \in 1..Len(response.v.plotData.v) : PlotValid(response.v.plotData.v[i])

NoDuplicateNames(ms) ==
    \A i, j \in 1..Len(ms) :
        LowerStr(ms[i].v.name.v) = LowerStr(ms[j].v.name.v) => i = j

\* C10 (as claimed): the metrics of a processing result and of the response
\* hold no two entries whose names are equal after case normalization, and in
\* full-document mode each entry is the first one found with its name.
C10_UniqueMetricNames ==
    /\ (pc \in {"validate", "done"} /\ "metrics" \in DOMAIN result.v) =>
          NoDuplicateNames(result.v.metrics.v)
    /\ (Answered /\ "metrics" \in DOMAIN response.v) =>
          NoDuplicateNames(response.v.metrics.v)
    /\ FullResult =>
          \A i \in 1..Len(result.v.metrics.v) :
              LET raw == RawMetrics(text, 1)
                  m == result.v.metrics.v[i]
                  first == CHOOSE a \in 1..Len(raw) :
                              /\ LowerStr(raw[a].v.name.v) = LowerStr(m.v.name.v)
                              /\ \A b \in 1..(a - 1) :
                                    LowerStr(raw[b].v.name.v) # LowerStr(m.v.name.v)
              IN  m = raw[first]

\* a metric with a non-empty name of at most 50 characters and a non-empty value
MetricNamed(m) ==
    /\ m.t = "dict"
    /\ {"name", "value"} \subseteq DOMAIN m.v
    /\ m.v.name.t = "str" /\ StrLen(m.v.name.v) \in 1..50
    /\ m.v.value.t = "str" /\ StrLen(m.v.value.v) >= 1

\* C11: every metric of a response returned by the document-processing
\* endpoint, in full-document and in chunked mode, has a non-empty name of at
\* most 50 characters and a non-empty value
C11_MetricsNamed ==
    (pc = "done" /\ "metrics" \in DOMAIN response.v)
        => /\ response.v.metrics.t = "list"
           /\ \A i \in 1..Len(response.v.metrics.v) : MetricNamed(response.v.metrics.v[i])

\* a chunked request answered with the two metrics that passed the line tests
\* of "Revenue: $5M, growth\nrevenue: $6M\nRevenue:\n: $850\n<51 letters>: $5M"
C11_Witness ==
    /\ Answered /\ mode = "chunked" /\ via = "validate"
    /\ Len(response.v.metrics.v) = 2
    /\ response.v.metrics.v[1].v.name = Lit("Revenue")
    /\ response.v.metrics.v[2].v.name = Lit("revenue")
    /\ response.v.metrics.v[2].v.value = Lit("$6M")

\* C13: a request whose text is empty is answered at once with the 400
\* "No text provided" response: nothing is extracted, generated or normalized
\* for it, the clock is not read, the chunking flag is left as it was, and the
\* handler does nothing more for it
C13_EmptyTextRejected ==
    [][ /\ (pc = "idle" /\ pc' # "idle" /\ text' = <<>> /\ faulted' = "none")
            => /\ pc' = "done"
               /\ status' = 400
               /\ via' = "no_text"
               /\ response' = DictV([error |-> Lit("No text provided")])
               /\ mode' = "none"
               /\ result' = NoDict /\ pattern' = NoDict
               /\ ai_summary'.kind = "none" /\ ~any_success'
               /\ now' = now
               /\ USE_CHUNKING' = USE_CHUNKING
        /\ (pc = "done" /\ via = "no_text") => pc' \in {"done", "idle"} ]_vars

\* an empty text rejected while chunking is enabled
C13_Witness ==
    /\ pc = "done" /\ text = <<>> /\ via = "no_text" /\ status = 400
    /\ USE_CHUNKING
    /\ mode = "none" /\ result = NoDict

\* the invocation has returned
RpReturned == hpc \in {"returned", "resumed"}

\* C14: one invocation of call_runpod_llama submits at most once and polls at
\* most 60 times; it does not poll when the submission failed or gave no job
\* id, nor after a poll that reported COMPLETED or FAILED; polls answered
\* with a non-200 code or an unknown status use up the same 60; and the
\* invocation always returns
C14_BoundedPolling ==
    /\ [](/\ submits <= 1
          /\ polls <= max_polls
          /\ polls <= poll_count + 1
          /\ submit_status # "200" => polls = 0)
    /\ [][/\ job_status.status \in {"COMPLETED", "FAILED"} => polls' = polls
          /\ RpReturned => (polls' = polls /\ submits' = submits)]_vars
    /\ <>RpReturned

\* the invocation returned after 60 polls, the last one answered with a code
\* other than 200
C14_Witness ==
    /\ RpReturned
    /\ submits = 1
    /\ polls = max_polls
    /\ job_status.status = "non200"

\* s begins with "Error:"
BeginsWithError(s) == s # <<>> /\ s[1] = Tok("Error:")

\* the invocation ended in one of the ways that are failures: no API key, a
\* submission that failed, gave no job id or raised, a FAILED job, a COMPLETED
\* job without output, a poll that raised, the poll budget used up
RpFailed ==
    \/ ~hin.api_key
    \/ submit_status \in {"500", "no_id", "timeout", "exception"}
    \/ job_status.status \in {"FAILED", "timeout", "exception"}
    \/ job_status.status = "COMPLETED" /\ job_status.out = <<>>
    \/ poll_count >= max_polls

\* C15: call_runpod_llama never raises to its caller: every way of failing
\* yields a returned string that begins with "Error:"; and when the poll
\* budget is used up, process_full_document keeps the pattern-extracted
\* result, without an error entry
C15_ErrorsReturned ==
    /\ hpc \in {"call", "polling", "returned", "resumed"}
    /\ (RpReturned /\ RpFailed) => (hout.t = "str" /\ BeginsWithError(hout.v))
    /\ (hpc = "resumed" /\ poll_count >= max_polls)
          => (hout2 = hin.extracted_data /\ "error" \notin DOMAIN hout2.v)

\* process_full_document went on after an invocation that used up its 60 polls
C15_Witness ==
    /\ hpc = "resumed"
    /\ polls = max_polls /\ poll_count = max_polls
    /\ hout = StrV(ErrorStr("RunPod job timeout - took too long to complete"))
    /\ hout2 = hin.extracted_data

\* the response of call i describes the value v
Describes(call, v) ==
    /\ call.chunking_enabled = v
    /\ call.mode = (IF v THEN "chunked" ELSE "full_document")
    /\ call.message = (IF v THEN "Chunking is now enabled" ELSE "Chunking is now disabled")

\* C16: the chunking_enabled, mode and message fields of the response of a
\* toggle call all describe the value this call wrote to the flag, which is
\* the negation of the flag's prior value when no enable_chunking was
\* supplied and the supplied value otherwise, also when toggle calls interleave
C16_ToggleReturnsNewMode ==
    \A i \in Callers :
        toggle_calls[i].pc = "returned" =>
            /\ Describes(toggle_calls[i], toggle_calls[i].wrote)
            /\ toggle_calls[i].wrote = (IF toggle_calls[i].new_mode = "None"
                                        THEN ~toggle_calls[i].before
                                        ELSE toggle_calls[i].new_mode = "True")

\* what remains true under interleaving: a call that supplied enable_chunking
\* wrote the supplied value, and each field of a response describes a value the
\* flag had at some moment
C16_SuppliedValueWritten ==
    \A i \in Callers :
        (toggle_calls[i].pc = "returned" /\ toggle_calls[i].new_mode # "None")
            => toggle_calls[i].wrote = (toggle_calls[i].new_mode = "True")

\* the request is on the path, and its result is of the kind, that the mode
\* read at the dispatch calls for
OnPathOfMode ==
    /\ pc \in {"pfd_extract", "pfd_generate"} => mode = "full"
    /\ pc \in {"pwc_start", "pwc_summary", "pwc_keywords", "pwc_metrics", "pwc_finish"}
          => mode = "chunked"
    /\ (pc \in {"validate", "done"} /\ "processing_mode" \in DOMAIN result.v)
          => result.v.processing_mode =
                Lit(IF mode = "chunked" THEN "chunked" ELSE "simple_extraction_v1")
    /\ (Answered /\ via = "validate" /\ faulted = "none")
          => (mode = "chunked" <=>
                response.v.marketPosition =
                    Lit("Analysis completed with advanced AI capabilities"))

\* C17: the chunking mode of a request is fixed by one read of the flag, at
\* the dispatch: the mode, the processing path and the kind of result stay
\* what that read called for whatever the flag becomes afterwards, a step
\* that changes the flag changes nothing of the request, and no step of the
\* request changes the flag
C17_ModeFixedAtDispatch ==
    /\ []OnPathOfMode
    /\ [][/\ (mode = "none" /\ mode' # "none")
                => mode' = (IF USE_CHUNKING THEN "chunked" ELSE "full")
          /\ (mode # "none" /\ pc' # "idle") => mode' = mode
          /\ USE_CHUNKING' # USE_CHUNKING
                => UNCHANGED <<pc, text, mode, result, pattern, ai_summary, any_success,
                               chunks, chunk_i, all_summaries, all_keywords,
                               all_metrics, response, status, via, faulted, now>>]_vars

\* a request answered in chunked mode although the flag was cleared while it
\* was in flight
C17_Witness ==
    /\ Answered /\ via = "validate" /\ faulted = "none"
    /\ mode = "chunked"
    /\ ~USE_CHUNKING
    /\ result.v.processing_mode = Lit("chunked")

\* C18: for every text and every budget max_chars >= 1, every chunk that
\* chunk_text returns has at most max_chars characters
C18_ChunksWithinBudget ==
    hpc = "chunks" =>
        \A i \in 1..Len(hout.v) : StrLen(hout.v[i]) <= hin.max_chars

\* what remains true: the chunks are within the budget when no word of the
\* text is longer than the budget
C18_WithinBudgetIfWordsFit ==
    (hpc = "chunks" /\ \A w \in 1..Len(WordsOf(hin.text, <<>>)) :
                          StrLen(WordsOf(hin.text, <<>>)[w]) <= hin.max_chars)
        => \A i \in 1..Len(hout.v) : StrLen(hout.v[i]) <= hin.max_chars

\* C19: for every text, the empty text and texts without a period included,
\* extract_data_from_text_simple returns a result whose summary is a
\* non-empty string that ends with a period
C19_SummaryNonEmpty ==
    hpc = "extracted" =>
        /\ hout.t = "dict"
        /\ hout.v.summary.t = "str"
        /\ hout.v.summary.v # <<>>
        /\ StrLen(hout.v.summary.v) > 0
        /\ EndsWith(hout.v.summary.v, {"."})

\* a summary made of the text's own sentences only, with the period the
\* extractor adds
C19_Witness ==
    /\ hpc = "extracted"
    /\ LongSentences(hin.text) # <<>>
    /\ hout.v.summary.v = JoinedParts(LongSentences(hin.text))

\* the six filler sentences of app.py:1077-1082, joined by spaces
FillerSummary ==
    Join(<<Tok(" ")>>, << <<Tok(Filler1)>>, <<Tok(Filler2)>>, <<Tok(Filler3)>>,
                          <<Tok(Filler4)>>, <<Tok(Filler5)>>, <<Tok(Filler6)>> >>)

\* C20 as stated: when the text has no period-delimited segment longer than
\* 30 characters after trimming, the summary of the pattern extractor is the
\* canned "document processed successfully" sentence
C20_NoSentenceGivesCanned ==
    (hpc = "extracted" /\ LongSentences(hin.text) = <<>>)
        => hout.v.summary.v = <<Tok(CannedSummary)>>

\* C20, amended: when the text has no qualifying sentence, the summary of the
\* pattern extractor is the six filler sentences joined by spaces, and the
\* canned sentence is the summary of no text
C20_NoSentenceGivesFillers ==
    hpc = "extracted" =>
        /\ LongSentences(hin.text) = <<>> => hout.v.summary.v = FillerSummary
        /\ hout.v.summary.v # <<Tok(CannedSummary)>>

\* a non-empty text without a qualifying sentence, summarised by the fillers
C20_Witness ==
    /\ hpc = "extracted"
    /\ hin.text # <<>>
    /\ LongSentences(hin.text) = <<>>
    /\ hout.v.summary.v = FillerSummary

-----------------------------------------------------------------------------
(* generate_insights, app.py:630, with clean_and_structure_insights,         *)
(* generate_fallback_insights and generate_emergency_insights                *)

SuffixTag == " [AI-powered analysis with local processing]"

\* a fixed piece of text of n characters
Piece(s, n) == [s |-> s, n |-> n]

\* re.sub(r'^\d+\.\s*', '', line), app.py:687
StripNumbering(line) ==
    LET d == RunLen(line, 1, DigitChars)
    IN  IF d > 0 /\ d < Len(line) /\ line[d + 1].s = "." /\ line[d + 1].n = 1
        THEN SubSeq(line, d + 2 + RunLen(line, d + 2, WS), Len(line))
        ELSE line

\* re.sub(r'^[-•*]\s*', '', clean_line), app.py:689
StripBullet(line) ==
    IF line # <<>> /\ Head(line).s \in {"-", "bullet", "*"} /\ Head(line).n = 1
    THEN SubSeq(line, 2 + RunLen(line, 2, WS), Len(line))
    ELSE line

\* clean_line.lower().startswith('insight')
StartsWithInsight(line) ==
    /\ line # <<>>
    /\ Lower(Head(line).s) \in {"insight", "insights"}
    /\ Head(line).n >= 7

\* CleanLine testing the length after the prefixes are removed
CleanLine_LengthAfterStrip(raw_line) ==
    LET line == Strip(raw_line)
        clean_line == StripBullet(StripNumbering(line))
    IN  IF StrLen(clean_line) > 20 /\ ~StartsWithInsight(clean_line)
        THEN <<clean_line>> ELSE <<>>

\* app.py:684-692: what a line adds to clean_insights, a list of zero or one
\* string
CleanLine(raw_line) ==
    LET line == Strip(raw_line)
        clean_line == StripBullet(StripNumbering(line))
    IN  IF StrLen(line) > 20 /\ clean_line # <<>> /\ ~StartsWithInsight(clean_line)
        THEN <<clean_line>> ELSE <<>>

RECURSIVE CleanLines(_)
CleanLines(lines) ==
    IF lines = <<>> THEN <<>> ELSE CleanLine(Head(lines)) \o CleanLines(Tail(lines))

\* app.py:674
clean_and_structure_insights(insights_text) ==
    IF insights_text = <<>> THEN <<>>
    ELSE Join(<<Tok(" ")>>, Take(CleanLines(Split(insights_text, "\n")), 3))

\* 'revenue' in m.lower() or 'sales' in m.lower() or '$' in m, app.py:708
Financial(m) ==
    \E i \in 1..Len(m) :
        \/ IsFull(m[i]) /\ Lower(m[i].s) \in {"revenue", "sales"}
        \/ m[i].s \in CurrencyWithSuffix \cup CurrencyBare

\* any(... for m in metrics), app.py:708: "raise" when m.lower() is called on
\* a metric that is no string before a financial one is met
RECURSIVE AnyFinancial(_)
AnyFinancial(metrics) ==
    IF metrics = <<>> THEN "false"
    ELSE IF Head(metrics).t # "str" THEN "raise"
    ELSE IF Financial(Head(metrics).v) THEN "true"
    ELSE AnyFinancial(Tail(metrics))

\* any(word in summary.lower() for word in words), app.py:715 and 717
HasWord(summary, words) ==
    \E i \in 1..Len(summary) : IsFull(summary[i]) /\ Lower(summary[i].s) \in words

\* app.py:696: v is the string returned; raised tells that a statement raised
generate_fallback_insights(keywords, metrics, summary) ==
    LET k == IF keywords # <<>>
             THEN << <<Piece("Document analysis indicates primary focus on ", 45)>>
                        \o keywords[1]
                        \o <<Piece(" and related strategic initiatives.", 35)>> >>
             ELSE <<>>
        fin == AnyFinancial(metrics)
        m == IF metrics = <<>> THEN <<>>
             ELSE IF fin = "true"
             THEN << <<Piece("Financial performance tracking evidenced through ", 49),
                       NumTok(Len(metrics)),
                       Piece(" quantitative metric(s), suggesting data-driven management approach.", 68)>> >>
             ELSE << <<Piece("Operational metrics tracking with ", 34),
                       NumTok(Len(metrics)),
                       Piece(" key performance indicator(s) identified.", 41)>> >>
        s == IF summary # <<>> /\ StrLen(summary) > 100
             THEN IF HasWord(summary, {"growth", "increase", "expansion"})
                  THEN << <<Piece("Business trajectory shows growth-oriented strategic direction.", 62)>> >>
                  ELSE IF HasWord(summary, {"efficiency", "optimization", "improvement"})
                  THEN << <<Piece("Operational focus emphasizes efficiency and process optimization.", 65)>> >>
                  ELSE <<>>
             ELSE <<>>
        insights == k \o m \o s
    IN  IF metrics # <<>> /\ fin = "raise" THEN [raised |-> TRUE, v |-> <<>>]
        ELSE [raised |-> FALSE,
              v |-> IF insights # <<>> THEN Join(<<Tok(" ")>>, insights)
                    ELSE <<Piece("Business document contains structured analytical content suitable for strategic review.", 87)>>]

\* app.py:722
generate_emergency_insights(keywords, metrics) ==
    <<Piece("Document analysis completed: ", 29), NumTok(Len(keywords)),
      Piece(" key topics and ", 16), NumTok(Len(metrics)),
      Piece(" metrics identified. Secure local processing maintained throughout analysis.", 76)>>

\* app.py:659-672, generated being the string generate_with_llama returned
generate_insights(keywords, metrics, summary, generated) ==
    LET insights == clean_and_structure_insights(generated)
        fallback == generate_fallback_insights(keywords, metrics, summary)
    IN  IF insights = <<>> \/ StrLen(insights) < 30
        THEN IF fallback.raised THEN generate_emergency_insights(keywords, metrics)
             ELSE fallback.v \o <<Piece(SuffixTag, 44)>>
        ELSE insights \o <<Piece(SuffixTag, 44)>>

\* strings generate_with_llama (app.py:278) can return for the prompt of
\* generate_insights: the sentence standing in for an empty generation
\* (app.py:315), the two sentences of its exception branch the prompt can
\* select (app.py:321-324), and generated texts as clean_generated_text
\* leaves them: a text of 13 characters, one of 25, a line of 41, two lines
\* the second one with a bullet, and a line that starts with "Insights"
InsightGenerations ==
    { <<Piece("Analysis completed with AI processing.", 38)>>,
      <<Piece("revenue, growth, performance, market, customers", 47)>>,
      <<Piece("Business document contains relevant analytical content and operational information.", 83)>>,
      <<Fill(12), Tok(".")>>,
      <<Fill(24), Tok(".")>>,
      <<Fill(40), Tok(".")>>,
      <<Fill(25), Tok("\n"), Tok("-"), Tok(" "), Fill(30), Tok(".")>>,
      <<Tok("Insights"), Tok(" "), Fill(30), Tok(".")>> }

InsightKeywords ==
    { <<>>, << <<Tok("revenue")>> >>, << <<Tok("growth")>>, <<Tok("market")>> >> }

\* a metric as the parsers return it, a string "name: value"
MetricString(name, value) == StrV(<<Tok(name), Tok(":"), Tok(" "), Tok(value)>>)

\* a metric as extract_data_from_text_simple and validate_response_format
\* return it, a name/value record (app.py:1343-1352)
MetricRecord(name, value, unit) ==
    DictV([name |-> Lit(name), value |-> Lit(value), unit |-> Lit(unit),
           category |-> Lit("Financial")])

InsightMetrics ==
    { <<>>,
      <<MetricString("Revenue", "$5M")>>,
      <<MetricString("Growth", "23%")>>,
      <<MetricString("Growth", "23%"), MetricString("Revenue", "$5M")>>,
      <<MetricRecord("Revenue", "$5M", "Currency")>>,
      <<MetricString("Revenue", "$5M"), MetricRecord("Growth", "23%", "Percentage")>>,
      <<MetricString("Growth", "23%"), MetricRecord("Revenue", "$5M", "Currency")>> }

\* no summary, a summary of 57 characters, and summaries of 107 characters
\* about growth, about nothing in particular, and about efficiency
InsightSummaries ==
    { <<>>,
      <<Fill(50), Tok(" "), Tok("growth")>>,
      <<Fill(100), Tok(" "), Tok("growth")>>,
      <<Fill(100), Tok(" "), Tok("market")>>,
      <<Fill(96), Tok(" "), Tok("efficiency")>> }

InsightsInit ==
    /\ ReqIdle
    /\ RunpodIdle
    /\ ToggleIdle
    /\ hin \in {[keywords |-> k, metrics |-> m, summary |-> s, generated |-> g] :
                   k \in InsightKeywords, m \in InsightMetrics,
                   s \in InsightSummaries, g \in InsightGenerations}
    /\ hout = NoneV
    /\ hout2 = NoneV
    /\ hpc = "inputs"

InsightsOnce ==
    /\ hpc = "inputs"
    /\ hout' = StrV(generate_insights(hin.keywords, hin.metrics, hin.summary,
                                      hin.generated))
    /\ hpc' = "insights"
    /\ UNCHANGED <<hin, hout2>>
    /\ UNCHANGED runpodVars
    /\ UNCHANGED <<reqVars, toggle_calls>>

SpecInsights == InsightsInit /\ [][InsightsOnce]_vars

\* the cleaned text of the generation is empty or shorter than 30 characters
CleanedTooShort(generated) ==
    LET insights == clean_and_structure_insights(generated)
    IN  insights = <<>> \/ StrLen(insights) < 30

\* C21: whenever the cleaned insight text is empty or shorter than 30
\* characters, generate_insights returns the composition of
\* generate_fallback_insights over the keywords, metrics and summary it was
\* given, followed by the suffix tag, whether the metrics are strings or
\* name/value records
C21_ShortGivesFallback ==
    (hpc = "insights" /\ CleanedTooShort(hin.generated)) =>
        LET fallback == generate_fallback_insights(hin.keywords, hin.metrics, hin.summary)
        IN  /\ ~fallback.raised
            /\ hout.v = fallback.v \o <<Piece(SuffixTag, 44)>>

\* as long as every metric is a string, a short cleaned text gives the
\* fallback composition
C21_ShortGivesFallbackForStrings ==
    (/\ hpc = "insights"
     /\ CleanedTooShort(hin.generated)
     /\ \A i \in 1..Len(hin.metrics) : hin.metrics[i].t = "str") =>
        hout.v = generate_fallback_insights(hin.keywords, hin.metrics, hin.summary).v
                     \o <<Piece(SuffixTag, 44)>>

\* s.endswith(suffix), for a suffix of one piece
EndsWithPiece(s, piece) == s # <<>> /\ s[Len(s)] = piece

\* C27: every string generate_insights returns ends with the suffix tag
C27_AlwaysTagged ==
    hpc = "insights" => EndsWithPiece(hout.v, Piece(SuffixTag, 44))

\* every string generate_insights returns ends with the suffix tag unless a
\* statement of generate_insights raised
C27_TaggedUnlessRaised ==
    (hpc = "insights"
     /\ hout.v # generate_emergency_insights(hin.keywords, hin.metrics)) =>
        EndsWithPiece(hout.v, Piece(SuffixTag, 44))

-----------------------------------------------------------------------------
(* clean_and_structure_insights applied to texts of a few lines *)

\* most lines of a text offered to clean_and_structure_insights
MaxLines == 4

\* lines of 21 and of 20 letters, a bullet before 19 letters, a number and a
\* bullet before 25 letters between spaces, a number before 30 letters, a
\* line of 22 characters that is a number only, lines that start with
\* "Insight", directly and behind a bullet, and a blank line
InsightLines ==
    { <<Fill(21)>>,
      <<Fill(20)>>,
      <<Tok("-"), Tok(" "), Fill(19)>>,
      <<Tok(" "), Tok("1"), Tok("."), Tok("bullet"), Tok(" "), Fill(25), Tok(" ")>>,
      <<Tok("2"), Tok("."), Tok(" "), Fill(30)>>,
      [i \in 1..22 |-> IF i = 22 THEN Tok(".") ELSE Tok("7")],
      <<Tok("Insight"), Tok(" "), Tok("1"), Tok(":"), Tok(" "), Fill(30)>>,
      <<Tok("-"), Tok(" "), Tok("insights"), Tok(" "), Fill(30)>>,
      <<Tok(" ")>> }

InsightTexts ==
    {Join(<<Tok("\n")>>, ls) : ls \in UNION {[1..n -> InsightLines] : n \in 0..MaxLines}}

CleanInit ==
    /\ ReqIdle
    /\ RunpodIdle
    /\ ToggleIdle
    /\ hin \in InsightTexts
    /\ hout = NoneV
    /\ hout2 = NoneV
    /\ hpc = "text"

CleanOnce ==
    /\ hpc = "text"
    /\ hout' = StrV(clean_and_structure_insights(hin))
    /\ hpc' = "cleaned"
    /\ UNCHANGED <<hin, hout2>>
    /\ UNCHANGED runpodVars
    /\ UNCHANGED <<reqVars, toggle_calls>>

SpecClean == CleanInit /\ [][CleanOnce]_vars

\* a line without its surrounding white space, its numbering and its bullet
Unprefixed(raw_line) == StripBullet(StripNumbering(Strip(raw_line)))

\* the lines of a text that satisfy Q, without their prefixes, in input order
Qualifying(txt, Q(_)) ==
    LET lines == Split(txt, "\n")
    IN  [i \in 1..Len(SelectSeq([j \in 1..Len(lines) |-> j], LAMBDA j : Q(lines[j]))) |->
            Unprefixed(lines[SelectSeq([j \in 1..Len(lines) |-> j],
                                       LAMBDA j : Q(lines[j]))[i]])]

\* the line is, without its prefix, longer than 20 characters and does not
\* start with "insight"
LongWithoutPrefix(raw_line) ==
    StrLen(Unprefixed(raw_line)) > 20 /\ ~StartsWithInsight(Unprefixed(raw_line))

\* the line is, with its prefix, longer than 20 characters, and without it
\* not empty and does not start with "insight"
LongWithPrefix(raw_line) ==
    /\ StrLen(Strip(raw_line)) > 20
    /\ Unprefixed(raw_line) # <<>>
    /\ ~StartsWithInsight(Unprefixed(raw_line))

\* C28 as stated: the text returned is the first 3, at most, of the lines
\* that without their numbering and bullet prefix are longer than 20
\* characters and do not start with "insight", joined by spaces, in input order
C28_FirstThreeLongWithoutPrefix ==
    hpc = "cleaned" =>
        hout.v = Join(<<Tok(" ")>>, Take(Qualifying(hin, LongWithoutPrefix), 3))

\* C28, amended: the text returned is the first 3, at most, of the lines that
\* with their prefix are longer than 20 characters and without it are not
\* empty and do not start with "insight", joined by spaces without their
\* prefixes, in input order
C28_FirstThreeLongWithPrefix ==
    hpc = "cleaned" =>
        hout.v = Join(<<Tok(" ")>>, Take(Qualifying(hin, LongWithPrefix), 3))

\* four qualifying lines, of which the first three are returned, the second
\* one having 19 characters behind its bullet
C28_Witness ==
    /\ hpc = "cleaned"
    /\ Len(Qualifying(hin, LongWithPrefix)) = 4
    /\ Qualifying(hin, LongWithPrefix)[2] = <<Fill(19)>>
    /\ hout.v # <<>>
    /\ hout.v = Join(<<Tok(" ")>>, SubSeq(Qualifying(hin, LongWithPrefix), 1, 3))

-----------------------------------------------------------------------------
(* generate_plot_data, app.py:729, with parse_enhanced_plot_data and         *)
(* generate_basic_plots                                                      *)

\* most lines of a text offered to parse_enhanced_plot_data
MaxPlotLines == 3

\* a number of more than 308 digits, which float() turns into inf
HugeNumber == Piece("99999999", 400)

\* re.findall(r'\d+(?:\.\d+)?', v)[0] of a word as float() reads it
NumberIn(s) ==
    CASE s = "100" -> [kind |-> "float", int |-> 100]
      [] s = "120" -> [kind |-> "float", int |-> 120]
      [] s = "135" -> [kind |-> "float", int |-> 135]
      [] s = "45.5" -> [kind |-> "float", int |-> 45]
      [] s = "Q1" -> [kind |-> "float", int |-> 1]
      [] s = "Q2" -> [kind |-> "float", int |-> 2]
      [] s = HugeNumber.s -> [kind |-> "inf", int |-> 0]
      [] OTHER -> [kind |-> "none", int |-> 0]

\* app.py:788-798: what a field of values_text adds to values
ValueOf(v) ==
    LET numbered == SelectSeq(v, LAMBDA tok : NumberIn(tok.s).kind # "none")
    IN  IF numbered # <<>> THEN NumberIn(numbered[1].s)
        ELSE [kind |-> "float", int |-> 10]

\* [p.strip() for p in s.split(c)]
StrippedFields(s, c) == [i \in 1..Len(Split(s, c)) |-> Strip(Split(s, c)[i])]

\* ParsePlotLine accepting titles of up to 50 characters
ParsePlotLine_Title50(raw_line) ==
    LET line == Strip(raw_line)
        parts == StrippedFields(line, "|")
    IN  IF Len(parts) < 4 THEN <<>>
        ELSE LET title == parts[1]
                 chart_type == LowerStr(parts[2])
                 labels == SelectSeq(StrippedFields(parts[3], ","), LAMBDA l : l # <<>>)
                 fields == StrippedFields(parts[4], ",")
                 values == [i \in 1..Len(fields) |-> ValueOf(fields[i])]
             IN  IF /\ Len(labels) = Len(values)
                    /\ Len(labels) >= 2 /\ Len(labels) <= 6
                    /\ StrLen(title) > 0 /\ StrLen(title) <= 50
                    /\ \A i \in 1..Len(values) : values[i].kind # "inf"
                 THEN << Plot(StrV(title),
                              IF chart_type \in {<<Tok("bar")>>, <<Tok("line")>>, <<Tok("pie")>>}
                              THEN StrV(chart_type) ELSE Lit("bar"),
                              [i \in 1..Len(labels) |-> StrV(labels[i])],
                              [i \in 1..Len(values) |-> IntV(values[i].int)]) >>
                 ELSE <<>>

\* app.py:771-816: what a line adds to plots, a list of zero or one plot.  A
\* split of a line without '|' has one part; int() of inf raises
\* OverflowError, which the except clause of app.py:814 answers by going on
\* to the next line
ParsePlotLine(raw_line) ==
    LET line == Strip(raw_line)
        parts == StrippedFields(line, "|")
    IN  IF Len(parts) < 4 THEN <<>>
        ELSE LET title == parts[1]
                 chart_type == LowerStr(parts[2])
                 labels == SelectSeq(StrippedFields(parts[3], ","), LAMBDA l : l # <<>>)
                 fields == StrippedFields(parts[4], ",")
                 values == [i \in 1..Len(fields) |-> ValueOf(fields[i])]
             IN  IF /\ Len(labels) = Len(values)
                    /\ Len(labels) >= 2 /\ Len(labels) <= 6
                    /\ StrLen(title) > 0 /\ StrLen(title) < 50
                    /\ \A i \in 1..Len(values) : values[i].kind # "inf"
                 THEN << Plot(StrV(title),
                              IF chart_type \in {<<Tok("bar")>>, <<Tok("line")>>, <<Tok("pie")>>}
                              THEN StrV(chart_type) ELSE Lit("bar"),
                              [i \in 1..Len(labels) |-> StrV(labels[i])],
                              [i \in 1..Len(values) |-> IntV(values[i].int)]) >>
                 ELSE <<>>

RECURSIVE ParsePlotLines(_)
ParsePlotLines(lines) ==
    IF lines = <<>> THEN <<>>
    ELSE ParsePlotLine(Head(lines)) \o ParsePlotLines(Tail(lines))

\* app.py:828
generate_basic_plots(keywords, metrics) ==
    LET topics == IF keywords # <<>>
                  THEN << Plot(Lit("Key Topics Analysis"), Lit("bar"),
                               [i \in 1..Len(Take(keywords, 5)) |-> StrV(keywords[i])],
                               <<IntV(20), IntV(15), IntV(12), IntV(10), IntV(8)>>) >>
                  ELSE <<>>
        focus == IF Len(keywords) > 3
                 THEN << Plot(Lit("Business Focus Areas"), Lit("pie"),
                              [i \in 1..Len(Take(keywords, 4)) |-> StrV(keywords[i])],
                              <<IntV(30), IntV(25), IntV(25), IntV(20)>>) >>
                 ELSE <<>>
    IN  Take(topics \o focus, 2)

\* app.py:761
parse_enhanced_plot_data(response_text) ==
    IF response_text = <<>> THEN generate_basic_plots(<<>>, <<>>)
    ELSE LET plots == ParsePlotLines(Split(response_text, "\n"))
         IN  IF plots = <<>> THEN generate_basic_plots(<<>>, <<>>)
             ELSE Take(plots, 2)

\* app.py:729, generated being the string generate_with_llama returned.
\* ', '.join(metrics[:3]) raises TypeError when one of the first three
\* metrics is no string
generate_plot_data(keywords, metrics, generated) ==
    IF \E i \in 1..Len(Take(metrics, 3)) : metrics[i].t # "str"
    THEN generate_basic_plots(keywords, metrics)
    ELSE parse_enhanced_plot_data(generated)

Q1 == Piece("Q1", 2)
Q2 == Piece("Q2", 2)
Bar == Tok("|")

\* the line of the scenario "Revenue|bar|Q1,Q2|100"; a plot of six labels
\* with type "PIE" and a value field without a number; titles of 50, 49 and
\* 51 characters, the second one with an unknown type, a blank label and a
\* fifth field; a line of three fields; one label; seven labels; a blank
\* title; a value of 400 digits; and a line without '|'
PlotLines ==
    { <<Tok("Revenue"), Bar, Tok("bar"), Bar, Q1, Tok(","), Q2, Bar, Piece("100", 3)>>,
      <<Tok("Revenue"), Bar, Piece("PIE", 3), Bar,
        Q1, Tok(","), Q2, Tok(","), Q1, Tok(","), Q2, Tok(","), Q1, Tok(","), Q2, Bar,
        Piece("120", 3), Tok(","), Fill(3), Tok(","), Piece("45.5", 4), Tok(","),
        Tok("$"), Piece("135", 3), Tok(","), Q1, Tok(","), Tok(" ")>>,
      <<Fill(50), Bar, Tok("line"), Bar, Q1, Tok(","), Q2, Bar,
        Piece("120", 3), Tok(","), Piece("135", 3)>>,
      <<Tok(" "), Fill(49), Tok(" "), Bar, Fill(7), Bar, Q1, Tok(","), Tok(" "), Tok(","), Q2,
        Bar, Piece("120", 3), Tok(","), Piece("135", 3), Bar, Fill(4)>>,
      <<Fill(51), Bar, Tok("bar"), Bar, Q1, Tok(","), Q2, Bar,
        Piece("120", 3), Tok(","), Piece("135", 3)>>,
      <<Tok("Revenue"), Bar, Tok("bar"), Bar, Q1, Tok(","), Q2>>,
      <<Tok("Growth"), Bar, Tok("bar"), Bar, Q1, Bar, Piece("100", 3)>>,
      <<Tok("Growth"), Bar, Tok("bar"), Bar,
        Q1, Tok(","), Q2, Tok(","), Q1, Tok(","), Q2, Tok(","), Q1, Tok(","), Q2, Tok(","), Q1,
        Bar, Tok(","), Tok(","), Tok(","), Tok(","), Tok(","), Tok(",")>>,
      <<Tok(" "), Bar, Tok("bar"), Bar, Q1, Tok(","), Q2, Bar,
        Piece("120", 3), Tok(","), Piece("135", 3)>>,
      <<Tok("Growth"), Bar, Tok("line"), Bar, Q1, Tok(","), Q2, Bar,
        Piece("120", 3), Tok(","), HugeNumber>>,
      <<Fill(30)>> }

PlotTexts ==
    {Join(<<Tok("\n")>>, ls) : ls \in UNION {[1..n -> PlotLines] : n \in 0..MaxPlotLines}}

\* strings generate_with_llama (app.py:278) can return for the prompt of
\* generate_plot_data: the sentence standing in for an empty generation
\* (app.py:315), the sentence of its exception branch the prompt selects
\* (app.py:325), and generated texts, to which clean_generated_text has
\* appended a period (app.py:276).  Texts with a period inside, which it
\* would take apart, are left out
PlotGenerations ==
    { <<Piece("Analysis completed with AI processing.", 38)>>,
      <<Piece("Revenue: Data Available, Growth: Positive Trend, Performance: Under Review", 74)>> }
    \cup {Join(<<Tok("\n")>>, ls) \o <<Tok(".")>> :
             ls \in {ms \in [1..1 -> PlotLines] \cup [1..2 -> PlotLines] :
                       \A i \in 1..Len(ms) : \A j \in 1..Len(ms[i]) : ms[i][j].s # "45.5"}}

\* keywords and metrics handed to generate_plot_data: none, one keyword and
\* a string, four keywords and two strings, one keyword and a record
PlotArguments ==
    { [keywords |-> <<>>, metrics |-> <<>>],
      [keywords |-> << <<Tok("revenue")>> >>,
       metrics |-> <<MetricString("Revenue", "$5M")>>],
      [keywords |-> << <<Tok("revenue")>>, <<Tok("growth")>>, <<Tok("market")>>,
                       <<Tok("profit")>> >>,
       metrics |-> <<MetricString("Revenue", "$5M"), MetricString("Growth", "23%")>>],
      [keywords |-> << <<Tok("growth")>> >>,
       metrics |-> <<MetricRecord("Growth", "23%", "Percentage")>>] }

PlotsInit ==
    /\ ReqIdle
    /\ RunpodIdle
    /\ ToggleIdle
    /\ hin \in {[keywords |-> a.keywords, metrics |-> a.metrics, response |-> t] :
                   a \in PlotArguments, t \in PlotGenerations}
               \cup {[keywords |-> <<>>, metrics |-> <<>>, response |-> t] : t \in PlotTexts}
    /\ hout = NoneV
    /\ hout2 = NoneV
    /\ hpc = "inputs"

\* generate_plot_data(keywords, metrics), generate_with_llama returning
\* hin.response
GeneratePlotData ==
    /\ hpc = "inputs"
    /\ hin.response \in PlotGenerations
    /\ hout' = ListV(generate_plot_data(hin.keywords, hin.metrics, hin.response))
    /\ hpc' = "generated"
    /\ UNCHANGED <<hin, hout2>>
    /\ UNCHANGED runpodVars
    /\ UNCHANGED <<reqVars, toggle_calls>>

\* parse_enhanced_plot_data(response)
ParsePlotData ==
    /\ hpc = "inputs"
    /\ hout' = ListV(parse_enhanced_plot_data(hin.response))
    /\ hpc' = "parsed"
    /\ UNCHANGED <<hin, hout2>>
    /\ UNCHANGED runpodVars
    /\ UNCHANGED <<reqVars, toggle_calls>>

SpecPlots == PlotsInit /\ [][GeneratePlotData \/ ParsePlotData]_vars

\* C22: when no line of the generated text parses to a valid plot,
\* generate_plot_data returns the fallback plots built from the keywords and
\* the metrics it was given, and so a non-empty list whenever keywords is
\* not empty
C22_NoPlotGivesFallback ==
    (hpc = "generated" /\ ParsePlotLines(Split(hin.response, "\n")) = <<>>) =>
        /\ hout.v = generate_basic_plots(hin.keywords, hin.metrics)
        /\ hin.keywords # <<>> => hout.v # <<>>

\* when no line of the generated text parses to a valid plot and every
\* metric is a string, generate_plot_data returns no plot at all
C22_NoPlotGivesNothing ==
    (/\ hpc = "generated"
     /\ ParsePlotLines(Split(hin.response, "\n")) = <<>>
     /\ \A i \in 1..Len(hin.metrics) : hin.metrics[i].t = "str") =>
        hout.v = <<>>


\* the fields of a line, and its title, labels and value fields
PlotFields(raw_line) == StrippedFields(Strip(raw_line), "|")
PlotTitle(raw_line) == PlotFields(raw_line)[1]
PlotLabels(raw_line) ==
    SelectSeq(StrippedFields(PlotFields(raw_line)[3], ","), LAMBDA l : l # <<>>)
PlotValueFields(raw_line) == StrippedFields(PlotFields(raw_line)[4], ",")

\* a line of at least 4 fields with as many labels as value fields, 2 to 6
\* labels and a title of 1 to longest characters
WellFormed(raw_line, longest) ==
    /\ Len(PlotFields(raw_line)) >= 4
    /\ Len(PlotLabels(raw_line)) = Len(PlotValueFields(raw_line))
    /\ Len(PlotLabels(raw_line)) >= 2 /\ Len(PlotLabels(raw_line)) <= 6
    /\ StrLen(PlotTitle(raw_line)) >= 1 /\ StrLen(PlotTitle(raw_line)) <= longest

\* no value field of the line holds a number beyond the range of float
NoHugeValue(raw_line) ==
    \A i \in 1..Len(PlotValueFields(raw_line)) :
        \A j \in 1..Len(PlotValueFields(raw_line)[i]) :
            PlotValueFields(raw_line)[i][j] # HugeNumber

\* plot p is line raw_line with its type normalized and its values integers
PlotOfLine(p, raw_line) ==
    /\ p.v.title.v = PlotTitle(raw_line)
    /\ p.v.type \in {Lit("bar"), Lit("line"), Lit("pie")}
    /\ p.v.type = (IF LowerStr(PlotFields(raw_line)[2])
                        \in {<<Tok("bar")>>, <<Tok("line")>>, <<Tok("pie")>>}
                   THEN StrV(LowerStr(PlotFields(raw_line)[2])) ELSE Lit("bar"))
    /\ p.v.labels.v = [i \in 1..Len(PlotLabels(raw_line)) |-> StrV(PlotLabels(raw_line)[i])]
    /\ Len(p.v.values.v) = Len(PlotValueFields(raw_line))
    /\ \A i \in 1..Len(p.v.values.v) :
          /\ p.v.values.v[i].t = "int"
          /\ (\A j \in 1..Len(PlotValueFields(raw_line)[i]) :
                 NumberIn(PlotValueFields(raw_line)[i][j].s).kind = "none")
                => p.v.values.v[i] = IntV(10)

\* the plots returned are the first two, at most, of the accepted lines
ReturnsFirstTwo(plots, accepted) ==
    /\ Len(plots) = (IF Len(accepted) < 2 THEN Len(accepted) ELSE 2)
    /\ \A i \in 1..Len(plots) : PlotOfLine(plots[i], accepted[i])

\* C24 as stated: parse_enhanced_plot_data accepts a line exactly when it has
\* at least 4 pipe-separated fields, as many labels as values, 2 to 6 labels
\* and a title of 1 to 50 characters; an accepted plot has type bar, line or
\* pie (bar by default) and integer values (10 for a field without a number),
\* and at most 2 plots are returned
C24_AcceptsTitlesUpTo50 ==
    hpc = "parsed" =>
        ReturnsFirstTwo(hout.v, SelectSeq(Split(hin.response, "\n"),
                                          LAMBDA l : WellFormed(l, 50)))

\* C24, amended: the same with a title of 1 to 49 characters and with value
\* fields whose numbers float can hold
C24_AcceptsTitlesUpTo49 ==
    hpc = "parsed" =>
        ReturnsFirstTwo(hout.v, SelectSeq(Split(hin.response, "\n"),
                                          LAMBDA l : WellFormed(l, 49) /\ NoHugeValue(l)))

\* three lines, the first with a title of 50 characters, the second with one
\* of 49 and an unknown type, the third with type "PIE" and a value field
\* without a number: the last two are returned, as bar and as pie
C24_Witness ==
    /\ hpc = "parsed"
    /\ Len(Split(hin.response, "\n")) = 3
    /\ StrLen(PlotTitle(Split(hin.response, "\n")[1])) = 50
    /\ Len(hout.v) = 2
    /\ StrLen(hout.v[1].v.title.v) = 49
    /\ hout.v[1].v.type = Lit("bar")
    /\ hout.v[1].v.values.v = <<IntV(120), IntV(135)>>
    /\ hout.v[2].v.type = Lit("pie")
    /\ hout.v[2].v.values.v = <<IntV(120), IntV(10), IntV(45), IntV(135), IntV(1), IntV(10)>>

-----------------------------------------------------------------------------
(* parse_ai_metrics_response, app.py:542 *)

\* most lines of a text offered to parse_ai_metrics_response
MaxMetricLines == 3

\* re.sub(r'^[\d\.\-\*\•]+\s*', '', line), app.py:561
StripListPrefix(line) ==
    LET k == RunLen(line, 1, DigitChars \cup {".", "-", "*", "bullet"})
    IN  IF k > 0 THEN SubSeq(line, k + 1 + RunLen(line, k + 1, WS), Len(line))
        ELSE line

\* any(char.isdigit() for char in v) or '$' in v or '%' in v, app.py:572
LooksLikeValue(v) ==
    \E i \in 1..Len(v) :
        v[i].s \in DigitChars \cup CurrencyWithSuffix \cup CurrencyBare
                   \cup {"23%", "45%", "123", "1,200", "$", "%"}

\* ParseMetricLine without the test of the length of the line
ParseMetricLine_AnyLength(raw_line) ==
    LET line == Strip(raw_line)
        clean_line == Strip(StripListPrefix(line))
        metric_name == Strip(BeforeFirstColon(clean_line))
        metric_value == Strip(AfterFirstColon(clean_line))
    IN  IF /\ line # <<>> /\ StrLen(line) >= 5
           /\ \E i \in 1..Len(clean_line) : clean_line[i] = Tok(":")
           /\ StrLen(metric_name) > 2 /\ StrLen(metric_value) > 0
           /\ LooksLikeValue(metric_value)
        THEN <<metric_name \o <<Tok(":"), Tok(" ")>> \o metric_value>>
        ELSE <<>>

\* app.py:553-575: the formatted metric of a line, a list of zero or one string
ParseMetricLine(raw_line) ==
    LET line == Strip(raw_line)
        clean_line == Strip(StripListPrefix(line))
        metric_name == Strip(BeforeFirstColon(clean_line))
        metric_value == Strip(AfterFirstColon(clean_line))
    IN  IF /\ line # <<>> /\ StrLen(line) >= 5
           /\ \E i \in 1..Len(clean_line) : clean_line[i] = Tok(":")
           /\ StrLen(metric_name) > 2 /\ StrLen(metric_value) > 0
           /\ LooksLikeValue(metric_value)
           /\ StrLen(clean_line) < 150
        THEN <<metric_name \o <<Tok(":"), Tok(" ")>> \o metric_value>>
        ELSE <<>>

RECURSIVE ParseMetricLines(_, _)
\* app.py:553-577: metrics after the lines were read
ParseMetricLines(lines, metrics) ==
    IF lines = <<>> THEN metrics
    ELSE LET formatted == ParseMetricLine(Head(lines))
         IN  ParseMetricLines(Tail(lines),
                 IF formatted # <<>> /\ \A i \in 1..Len(metrics) : metrics[i] # formatted[1]
                 THEN metrics \o formatted ELSE metrics)

\* app.py:542
parse_ai_metrics_response(response_text) ==
    IF response_text = <<>> THEN <<>>
    ELSE ParseMetricLines(Split(response_text, "\n"), <<>>)

\* "Revenue: $5M", plain, numbered and with a second colon; "- Growth: 23%";
\* a value without a number; a line of 4 characters; a name of 2 characters;
\* a numbered line of 149 characters behind its number; a line of 150
\* characters; a line without a colon; and a line without a name
MetricLines ==
    { <<Tok("Revenue"), Tok(":"), Tok(" "), Tok("$5M")>>,
      <<Tok(" "), Tok("1"), Tok("."), Tok(" "), Tok("Revenue"), Tok(" "), Tok(":"),
        Tok("$5M"), Tok(" ")>>,
      <<Tok("Revenue"), Tok(":"), Tok(" "), Tok("$5M"), Tok(" "), Tok(":"), Tok(" "), Tok("23%")>>,
      <<Tok("-"), Tok(" "), Tok("Growth"), Tok(":"), Tok(" "), Tok("23%")>>,
      <<Tok("Revenue"), Tok(":"), Tok(" "), Tok("growth")>>,
      <<Fill(1), Tok(":"), Tok(" "), Tok("7")>>,
      <<Fill(2), Tok(":"), Tok(" "), Tok("23%")>>,
      <<Tok("2"), Tok("."), Tok(" "), Fill(144), Tok(":"), Tok(" "), Tok("$6M")>>,
      <<Fill(145), Tok(":"), Tok(" "), Tok("$6M")>>,
      <<Tok("Growth"), Tok(" "), Tok("23%")>>,
      <<Tok("*"), Tok(":"), Tok(" "), Tok("$850")>> }

MetricTexts ==
    {Join(<<Tok("\n")>>, ls) : ls \in UNION {[1..n -> MetricLines] : n \in 0..MaxMetricLines}}

ParseMetricsInit ==
    /\ ReqIdle
    /\ RunpodIdle
    /\ ToggleIdle
    /\ hin \in MetricTexts
    /\ hout = NoneV
    /\ hout2 = NoneV
    /\ hpc = "text"

ParseMetricsOnce ==
    /\ hpc = "text"
    /\ hout' = ListV(parse_ai_metrics_response(hin))
    /\ hpc' = "metrics"
    /\ UNCHANGED <<hin, hout2>>
    /\ UNCHANGED runpodVars
    /\ UNCHANGED <<reqVars, toggle_calls>>

SpecParseMetrics == ParseMetricsInit /\ [][ParseMetricsOnce]_vars

\* a line without its surrounding white space and its numbering and bullets
SourceLine(raw_line) == Strip(StripListPrefix(Strip(raw_line)))

\* entry is "name: value" for the name and the value of the line, the value
\* holds a digit, '$' or '%', and the line is under 150 characters
EntryOf(entry, raw_line) ==
    /\ \E i \in 1..Len(SourceLine(raw_line)) : SourceLine(raw_line)[i] = Tok(":")
    /\ entry = Strip(BeforeFirstColon(SourceLine(raw_line))) \o <<Tok(":"), Tok(" ")>>
                   \o Strip(AfterFirstColon(SourceLine(raw_line)))
    /\ LooksLikeValue(Strip(AfterFirstColon(SourceLine(raw_line))))
    /\ StrLen(SourceLine(raw_line)) < 150

\* the first line of the text that entry is the entry of, 0 if there is none
FirstLineOf(entry, txt) ==
    LET lines == Split(txt, "\n")
        at == {i \in 1..Len(lines) : EntryOf(entry, lines[i])}
    IN  IF at = {} THEN 0 ELSE CHOOSE i \in at : \A j \in at : i <= j

\* C25: every entry parse_ai_metrics_response returns is "name: value" of a
\* line of the text that is under 150 characters without its numbering and
\* bullets and whose value holds a digit, '$' or '%'; no two entries are
\* equal; the entries stand in the order of their first lines; and for every
\* text, the empty one included, a list is returned
C25_EntriesOfLines ==
    hpc = "metrics" =>
        /\ hout.t = "list"
        /\ \A i \in 1..Len(hout.v) : FirstLineOf(hout.v[i], hin) > 0
        /\ \A i, j \in 1..Len(hout.v) :
              i < j => /\ hout.v[i] # hout.v[j]
                       /\ FirstLineOf(hout.v[i], hin) < FirstLineOf(hout.v[j], hin)

\* of the lines "Revenue: $5M" numbered, a line of 150 characters and
\* "Revenue: $5M" plain, the first gives the only entry
C25_Witness ==
    /\ hpc = "metrics"
    /\ Len(Split(hin, "\n")) = 3
    /\ StrLen(Split(hin, "\n")[1]) = 17
    /\ StrLen(Split(hin, "\n")[2]) = 150
    /\ Split(hin, "\n")[3] = <<Tok("Revenue"), Tok(":"), Tok(" "), Tok("$5M")>>
    /\ hout.v = << <<Tok("Revenue"), Tok(":"), Tok(" "), Tok("$5M")>> >>

-----------------------------------------------------------------------------
(* The filler sentences of the summary of extract_data_from_text_simple *)

\* the sentences of the text placed into the summary, app.py:1060-1068
PlacedSentences(txt) == SummaryParts(LongSentences(txt), <<>>, 0).parts

\* the summary holds the first filler sentence
HasFiller(summary) == \E i \in 1..Len(summary) : summary[i] = Tok(Filler1)

\* C26: the filler sentences are in the summary of the pattern extractor
\* exactly when the sentences of the text placed into the summary total fewer
\* than 200 words
C26_FillersIffUnder200Words ==
    hpc = "extracted" =>
        (HasFiller(hout.v.summary.v)
            <=> WordCount(Join(<<Tok(" ")>>, PlacedSentences(hin.text))) < 200)

\* whenever the sentences placed into the summary total fewer than 200 words
\* the filler sentences are in the summary
C26_FillersIfUnder200Words ==
    (hpc = "extracted"
     /\ WordCount(Join(<<Tok(" ")>>, PlacedSentences(hin.text))) < 200)
        => HasFiller(hout.v.summary.v)

-----------------------------------------------------------------------------
(* What validate_extracted_metrics rejects *)

\* a name variant of more than 2 characters occurs in the lower-cased source
NameOccurs(metric, original_text) ==
    LET variants == NameVariations(LowerStr(Strip(BeforeFirstColon(metric))))
    IN  \E i \in 1..Len(variants) :
           StrLen(variants[i]) > 2 /\ Contains(LowerStr(original_text), variants[i])

\* a match of the number pattern in the value that holds a digit occurs in
\* the source
DigitsOccur(metric, original_text) ==
    LET numbers == NumbersIn(Strip(AfterFirstColon(metric)))
    IN  \E i \in 1..Len(numbers) :
           IsNumber(numbers[i]) /\ Contains(original_text, numbers[i])

\* C29: a candidate none of whose name variants of more than 2 characters
\* occurs in the lower-cased source and none of whose digit sequences occurs
\* in the source is rejected by validate_extracted_metrics, also when its
\* value and the source both hold a comma
C29_RejectsUngrounded ==
    hpc = "validated" =>
        \A i \in 1..Len(hin.metrics) :
            (~NameOccurs(hin.metrics[i], hin.original_text)
             /\ ~DigitsOccur(hin.metrics[i], hin.original_text))
                => \A j \in 1..Len(hout) : hout[j] # hin.metrics[i]

\* such a candidate is rejected unless its value and the source both hold a
\* comma
C29_RejectsUngroundedWithoutComma ==
    hpc = "validated" =>
        \A i \in 1..Len(hin.metrics) :
            (/\ ~NameOccurs(hin.metrics[i], hin.original_text)
             /\ ~DigitsOccur(hin.metrics[i], hin.original_text)
             /\ ~(/\ Contains(AfterFirstColon(hin.metrics[i]), Chars(<<",">>))
                  /\ Contains(hin.original_text, Chars(<<",">>))))
                => \A j \in 1..Len(hout) : hout[j] # hin.metrics[i]

-----------------------------------------------------------------------------
(* Summary and insights of the full-document mode *)

\* C30: in full-document mode the insights of every result equal its summary,
\* for the result of the extractor, for the result after the enhancement
\* attempt and for the result of create_robust_fallback_response, and as well
\* in the response after validate_response_format or the fallback of the
\* endpoint
C30_InsightsAreSummary ==
    mode = "full" =>
        /\ pattern # NoDict => pattern.v.insights = pattern.v.summary
        /\ result # NoDict => result.v.insights = result.v.summary
        /\ pc = "done" => response.v.insights = response.v.summary

\* a response of the full-document mode that carries the generated summary,
\* another one than the summary of the extractor, in both fields
C30_Witness ==
    /\ Answered
    /\ mode = "full"
    /\ via = "validate"
    /\ SummaryComplete(ai_summary)
    /\ response.v.summary = StrV(Strip(ai_summary.out))
    /\ response.v.summary # pattern.v.summary
    /\ response.v.insights = response.v.summary

-----------------------------------------------------------------------------
(* A request in full-document mode whose generation call fails, followed     *)
(* from the extraction to the response, app.py:933, 953-968 and 915          *)

\* "TechCorp revenue grew 23% to $850 million with 94% retention."
ScenarioA ==
    <<Tok("TechCorp"), Tok(" "), Tok("revenue"), Tok(" "), Tok("grew"), Tok(" "),
      Tok("23%"), Tok(" "), Tok("to"), Tok(" "), Tok("$850"), Tok(" "), Tok("million"),
      Tok(" "), Tok("with"), Tok(" "), Tok("94%"), Tok(" "), Tok("retention"), Tok(".")>>

\* "TechCorp revenue: $850 million, growth 23% with retention 94%."
ScenarioLabelled ==
    <<Tok("TechCorp"), Tok(" "), Tok("revenue"), Tok(":"), Tok(" "), Tok("$850"), Tok(" "),
      Tok("million"), Tok(","), Tok(" "), Tok("growth"), Tok(" "), Tok("23%"), Tok(" "),
      Tok("with"), Tok(" "), Tok("retention"), Tok(" "), Tok("94%"), Tok(".")>>

\* "TechCorp grew."
ScenarioBare == <<Tok("TechCorp"), Tok(" "), Tok("grew"), Tok(".")>>

\* the generation capability is unavailable: call_runpod_llama returns an
\* error string or the try block raises
FailedCalls == {r \in CallResults : ~Succeeded(r)}

ScenarioInit ==
    /\ ReqIdle
    /\ RunpodIdle
    /\ ToggleIdle
    /\ hin \in UNION {{[text |-> t, keywords |-> kw, r |-> r] :
                          kw \in KeywordOrders(KeywordSet(t)), r \in FailedCalls} :
                      t \in {ScenarioA, ScenarioLabelled, ScenarioBare}}
    /\ hout = NoneV
    /\ hout2 = NoneV
    /\ hpc = "text"

\* app.py:933
ScenarioExtract ==
    /\ hpc = "text"
    /\ hout' = extract_data_from_text_simple(hin.text, hin.keywords, 0)
    /\ hpc' = "extracted"
    /\ UNCHANGED <<hin, hout2>>
    /\ UNCHANGED runpodVars
    /\ UNCHANGED <<reqVars, toggle_calls>>

\* app.py:936-968
ScenarioEnhance ==
    /\ hpc = "extracted"
    /\ hout' = EnhanceSummary(hout, hin.r)
    /\ hpc' = "enhanced"
    /\ UNCHANGED <<hin, hout2>>
    /\ UNCHANGED runpodVars
    /\ UNCHANGED <<reqVars, toggle_calls>>

\* app.py:915
ScenarioValidate ==
    /\ hpc = "enhanced"
    /\ hout2' = validate_response_format(hout, 1)
    /\ hpc' = "validated"
    /\ UNCHANGED <<hin, hout>>
    /\ UNCHANGED runpodVars
    /\ UNCHANGED <<reqVars, toggle_calls>>

SpecScenario ==
    ScenarioInit /\ [][ScenarioExtract \/ ScenarioEnhance \/ ScenarioValidate]_vars

\* the metrics hold an entry of the unit whose name holds one of the words
HasMetric(metrics, unit, words) ==
    \E i \in 1..Len(metrics) :
        /\ metrics[i].v.unit = Lit(unit)
        /\ \E j \in 1..Len(metrics[i].v.name.v) : metrics[i].v.name.v[j].s \in words

\* C23: for the text "TechCorp revenue grew 23% to $850 million with 94%
\* retention." and a failed generation call, the metrics of the response hold
\* a Percentage entry named after Growth or Retention and a Currency entry
\* named after Revenue, and processedWithAI is false
C23_ScenarioA ==
    (hpc = "validated" /\ hin.text = ScenarioA) =>
        /\ HasMetric(hout2.v.metrics.v, "Percentage", {"Growth", "Retention"})
        /\ HasMetric(hout2.v.metrics.v, "Currency", {"Revenue"})
        /\ hout2.v.processedWithAI = BoolV(FALSE)

\* what the response holds for that text: no metric, and processedWithAI true
C23_ScenarioAWithoutMetrics ==
    (hpc = "validated" /\ hin.text = ScenarioA) =>
        /\ hout2.v.metrics.v = <<>>
        /\ hout2.v.processedWithAI = BoolV(TRUE)

\* with each label right before its value the three metrics are returned
C23_LabelledGivesMetrics ==
    (hpc = "validated" /\ hin.text = ScenarioLabelled) =>
        /\ HasMetric(hout2.v.metrics.v, "Percentage", {"Growth"})
        /\ HasMetric(hout2.v.metrics.v, "Percentage", {"Retention"})
        /\ HasMetric(hout2.v.metrics.v, "Currency", {"Revenue"})

=============================================================================
